---- MODULE Spec2Model ----
(***************************************************************************)
(* Model of the rhl-server caching daemon (src/src/bin/hl-server.rs): the  *)
(* timestamped cache, the four refresh schedulers, the line-delimited JSON *)
(* RPC server with its per-connection loop, and the shutdown flag.          *)
(***************************************************************************)
EXTENDS Integers, Sequences, FiniteSets, TLC

\* ------------------------------------------------------------------------
\* Bounds of the model
\* ------------------------------------------------------------------------
\* number of clock movements in one behaviour
MaxTicks == 2
\* number of successful refresh cycles in one behaviour
MaxFetches == 2
\* number of lines the connections read in one behaviour
MaxLines == 2
\* number of requests a client sends in one behaviour
MaxRequests == 2
\* number of response lines with another id a client reads for one request
MaxSkips == 2

\* ------------------------------------------------------------------------
\* Option<T>: None is the empty sequence, Some(x) the one-element sequence
\* ------------------------------------------------------------------------
None == << >>
Some(x) == << x >>
IsSome(o) == o # << >>
Unwrap(o) == o[1]

\* ------------------------------------------------------------------------
\* Strings are sequences of characters; the characters the model uses and
\* their ASCII codes
\* ------------------------------------------------------------------------
Alphabet == {":", "A", "B", "a", "b"}
CharCode(ch) ==
    CASE ch = ":" -> 58
      [] ch = "A" -> 65
      [] ch = "B" -> 66
      [] ch = "a" -> 97
      [] ch = "b" -> 98
CharOf(code) == CHOOSE ch \in Alphabet : CharCode(ch) = code

\* u8::to_ascii_uppercase: 'a'..'z' move down by 32, everything else stays
to_ascii_uppercase_char(ch) ==
    IF CharCode(ch) >= 97 /\ CharCode(ch) <= 122 THEN CharOf(CharCode(ch) - 32) ELSE ch

\* str::to_ascii_uppercase
to_ascii_uppercase(s) == [i \in 1..Len(s) |-> to_ascii_uppercase_char(s[i])]

\* two strings equal up to the case of their ASCII letters
EqIgnoreCase(s, t) == to_ascii_uppercase(s) = to_ascii_uppercase(t)

\* ------------------------------------------------------------------------
\* The clock and the cache
\* ------------------------------------------------------------------------
\* the steps the wall clock takes between two observations (milliseconds);
\* SystemTime is not monotonic: one step goes backwards (taken at most once)
ClockSteps == {-1, 1, 4999}

\* ServerCache::is_connected compares the age of mids with this constant
ConnectedMs == 5000

Slots == {"mids", "asset_ctxs", "perp_metas", "spot_meta", "spot_ctxs"}

\* ServerCache::new: every slot is None
EmptyCache == [s \in Slots |-> None]

CacheEntry(data, updated_at) == [data |-> data, updated_at |-> updated_at]

set_slot_keep_time(c, slot, data, t) ==
    [c EXCEPT ![slot] = Some(CacheEntry(data, IF IsSome(c[slot]) THEN Unwrap(c[slot]).updated_at ELSE t))]
\* the body shared by set_mids, set_asset_ctxs, set_perp_metas, set_spot_meta
\* and set_spot_ctxs: the slot becomes Some(CacheEntry { data, now })
set_slot(c, slot, data, t) == [c EXCEPT ![slot] = Some(CacheEntry(data, t))]

set_mids_merge(c, data, t) ==
    IF IsSome(c["mids"])
    THEN set_slot(c, "mids",
                  [k \in DOMAIN data \cup DOMAIN Unwrap(c["mids"]).data |->
                      IF k \in DOMAIN data THEN data[k] ELSE Unwrap(c["mids"]).data[k]], t)
    ELSE set_slot(c, "mids", data, t)
set_mids(c, data, t) == set_slot(c, "mids", data, t)
set_asset_ctxs_evicts_metas(c, data, t) ==
    [set_slot(c, "asset_ctxs", data, t) EXCEPT !["perp_metas"] = None]
set_asset_ctxs(c, data, t) == set_slot(c, "asset_ctxs", data, t)
set_perp_metas(c, data, t) == set_slot(c, "perp_metas", data, t)
set_spot_meta(c, data, t) == set_slot(c, "spot_meta", data, t)
set_spot_ctxs_wrong_slot(c, data, t) == set_slot(c, "spot_meta", data, t)
set_spot_ctxs(c, data, t) == set_slot(c, "spot_ctxs", data, t)

\* the age of one slot, as ServerCache::status maps it
slot_age(c, slot, t) == IF IsSome(c[slot]) THEN Some(t - Unwrap(c[slot]).updated_at) ELSE None

\* ServerCache::status
status(c, t) ==
    [ has_mids            |-> IsSome(c["mids"]),
      has_asset_ctxs      |-> IsSome(c["asset_ctxs"]),
      has_perp_metas      |-> IsSome(c["perp_metas"]),
      has_spot_meta       |-> IsSome(c["spot_meta"]),
      has_spot_asset_ctxs |-> IsSome(c["spot_ctxs"]),
      mids_age            |-> slot_age(c, "mids", t),
      asset_ctxs_age      |-> slot_age(c, "asset_ctxs", t),
      perp_metas_age      |-> slot_age(c, "perp_metas", t),
      spot_meta_age       |-> slot_age(c, "spot_meta", t),
      spot_asset_ctxs_age |-> slot_age(c, "spot_ctxs", t) ]

is_connected_inclusive(c, t) ==
    IF IsSome(c["mids"]) THEN t - Unwrap(c["mids"]).updated_at <= ConnectedMs ELSE FALSE
\* ServerCache::is_connected
is_connected(c, t) ==
    IF IsSome(c["mids"]) THEN t - Unwrap(c["mids"]).updated_at < ConnectedMs ELSE FALSE


\* ------------------------------------------------------------------------
\* RPC requests and responses
\* ------------------------------------------------------------------------
\* a JSON value the server sends as `result`: what it is and its content
Json(of, v) == [of |-> of, v |-> v]

\* response_ok
response_ok(id, result, cached_at) ==
    [id |-> id, result |-> Some(result), cached_at |-> cached_at, error |-> None]

\* an error message: its fixed text and the text appended to it by format!
Msg(text, arg) == [text |-> text, arg |-> arg]

response_err_without_id(id, error) ==
    [id |-> "0", result |-> None, cached_at |-> None, error |-> Some(error)]

\* response_err
response_err(id, error) ==
    [id |-> id, result |-> None, cached_at |-> None, error |-> Some(error)]

\* req.params.as_ref().and_then(|p| p.get("coin")).and_then(|v| v.as_str()):
\* params carries the value under "coin": no such key, a non-string, a string
coin_of(params) == IF params.t = "str" THEN Some(params.s) ELSE None

SlotOfSwapped(method) ==
    CASE method = "getAssetCtxs"     -> "perp_metas"
      [] method = "getPerpMeta"      -> "asset_ctxs"
      [] method = "getSpotMeta"      -> "spot_meta"
      [] method = "getSpotAssetCtxs" -> "spot_ctxs"
\* the slot each getter reads
SlotOf(method) ==
    CASE method = "getAssetCtxs"     -> "asset_ctxs"
      [] method = "getPerpMeta"      -> "perp_metas"
      [] method = "getSpotMeta"      -> "spot_meta"
      [] method = "getSpotAssetCtxs" -> "spot_ctxs"

get_prices_upper_msg(id, coin, c) ==
    IF ~IsSome(c["mids"])
    THEN response_err(id, Msg("No data available", << >>))
    ELSE LET entry == Unwrap(c["mids"])
         IN  IF IsSome(coin)
             THEN LET coin_upper == to_ascii_uppercase(Unwrap(coin))
                  IN  IF coin_upper \notin DOMAIN entry.data
                      THEN response_err(id, Msg("Coin not found: ", coin_upper))
                      ELSE response_ok(id,
                                       Json("mids", [k \in {coin_upper} |-> entry.data[coin_upper]]),
                                       Some(entry.updated_at))
             ELSE response_ok(id, Json("mids", entry.data), Some(entry.updated_at))
\* the "getPrices" arm of handle_request
get_prices(id, coin, c) ==
    IF ~IsSome(c["mids"])
    THEN response_err(id, Msg("No data available", << >>))
    ELSE LET entry == Unwrap(c["mids"])
         IN  IF IsSome(coin)
             THEN LET coin_upper == to_ascii_uppercase(Unwrap(coin))
                  IN  IF coin_upper \notin DOMAIN entry.data
                      THEN response_err(id, Msg("Coin not found: ", Unwrap(coin)))
                      ELSE response_ok(id,
                                       Json("mids", [k \in {coin_upper} |-> entry.data[coin_upper]]),
                                       Some(entry.updated_at))
             ELSE response_ok(id, Json("mids", entry.data), Some(entry.updated_at))

\* the arms "getAssetCtxs", "getPerpMeta", "getSpotMeta", "getSpotAssetCtxs"
get_slot(id, slot, c) ==
    IF ~IsSome(c[slot])
    THEN response_err(id, Msg("No data available", << >>))
    ELSE response_ok(id, Json(slot, Unwrap(c[slot]).data), Some(Unwrap(c[slot]).updated_at))

get_status_needs_mids(id, c, is_testnet, started, t) ==
    IF ~IsSome(c["mids"])
    THEN response_err(id, Msg("No data available", << >>))
    ELSE response_ok(id,
                     Json("status", [ running    |-> TRUE,
                                      testnet    |-> is_testnet,
                                      connected  |-> is_connected(c, t),
                                      started_at |-> started,
                                      uptime     |-> t - started,
                                      cache      |-> status(c, t) ]),
                     None)
get_status_cached(id, c, is_testnet, started, t) ==
    response_ok(id,
                Json("status", [ running    |-> TRUE,
                                 testnet    |-> is_testnet,
                                 connected  |-> is_connected(c, t),
                                 started_at |-> started,
                                 uptime     |-> t - started,
                                 cache      |-> status(c, t) ]),
                Some(t))
\* the "getStatus" arm: ServerStatus
get_status(id, c, is_testnet, started, t) ==
    response_ok(id,
                Json("status", [ running    |-> TRUE,
                                 testnet    |-> is_testnet,
                                 connected  |-> is_connected(c, t),
                                 started_at |-> started,
                                 uptime     |-> t - started,
                                 cache      |-> status(c, t) ]),
                None)

Methods == {"getPrices", "getAssetCtxs", "getPerpMeta", "getSpotMeta", "getSpotAssetCtxs",
            "getStatus", "shutdown"}

match_arm_nocase(method) ==
    CASE method \in Methods -> method
      [] method = "getprices" -> "getPrices"
      [] method = "Shutdown" -> "shutdown"
      [] OTHER -> "other"
\* match req.method.as_str(): the arm a method name selects
match_arm(method) == IF method \in Methods THEN method ELSE "other"

\* handle_request: the response and whether the daemon is to shut down
handle_request(req, c, is_testnet, started, t) ==
    LET arm == match_arm(req.method)
    IN  CASE arm = "getPrices" ->
                << get_prices(req.id, coin_of(req.params), c), FALSE >>
          [] arm \in {"getAssetCtxs", "getPerpMeta", "getSpotMeta", "getSpotAssetCtxs"} ->
                << get_slot(req.id, SlotOf(arm), c), FALSE >>
          [] arm = "getStatus" ->
                << get_status(req.id, c, is_testnet, started, t), FALSE >>
          [] arm = "shutdown" ->
                << response_ok(req.id, Json("ok", TRUE), None), TRUE >>
          [] OTHER ->
                << response_err(req.id, Msg("Unknown method: ", << req.method >>)), FALSE >>

\* ------------------------------------------------------------------------
\* What the upstream API can answer (the payloads are opaque to the daemon)
\* ------------------------------------------------------------------------
\* allMids: symbol -> price; the third has a symbol with a lowercase letter
\* (the API lists such symbols, kPEPE among them)
MidsSnapshots ==
    { (<<"A">> :> "50000") @@ (<<"B">> :> "3000"),
      (<<"A">> :> "51000"),
      (<<"a", "B">> :> "7") @@ (<<"A">> :> "50000") }

\* PerpMeta, reduced to the names of its universe
Meta(names) == [universe |-> names]

\* allPerpMetas: the primary venue alone; venues b, a and b again; an empty
\* universe, a name without ':' and a name that starts with ':'
PerpMetaSnapshots ==
    { << Meta(<< <<"A">> >>) >>,
      << Meta(<< <<"A">> >>), Meta(<< <<"b", ":", "A">> >>),
         Meta(<< <<"a", ":", "B">>, <<"b", ":", "B">> >>), Meta(<< <<"b", ":", "B">> >>) >>,
      << Meta(<< <<"a", ":", "A">> >>), Meta(<< >>), Meta(<< <<"A", "B">> >>),
         Meta(<< <<":", "A">> >>) >> }

\* metaAndAssetCtxs of the primary venue, and of a named venue
DefaultCtxs == {"ctxs1", "ctxs2"}
DexCtxs(dex) == << "ctxs", dex >>

\* spotMetaAndAssetCtxs: (meta, ctxs)
SpotSnapshots == { <<"spotMeta1", "spotCtxs1">>, <<"spotMeta2", "spotCtxs2">> }

\* ------------------------------------------------------------------------
\* The venues of a perp-contexts cycle
\* ------------------------------------------------------------------------
HasColon(name) == \E i \in 1..Len(name) : name[i] = ":"
FirstColon(name) == CHOOSE i \in 1..Len(name) : name[i] = ":" /\ \A j \in 1..(i - 1) : name[j] # ":"

\* name.split_once(':').map(|(p, _)| p.to_string())
split_once_prefix(name) ==
    IF HasColon(name) THEN Some(SubSeq(name, 1, FirstColon(name) - 1)) ELSE None

\* perp_meta.universe.first().and_then(|m| m.name.split_once(':')...)
dex_of(perp_meta) ==
    IF Len(perp_meta.universe) = 0 THEN None ELSE split_once_prefix(perp_meta.universe[1])

dex_set_with_primary(perp_metas) ==
    IF ~IsSome(perp_metas) THEN {}
    ELSE LET data == Unwrap(perp_metas).data
         IN  { Unwrap(dex_of(data[i])) : i \in { j \in 1..Len(data) : IsSome(dex_of(data[j])) } }

\* the HashSet the loop over entry.data fills: index 0 is skipped
dex_set(perp_metas) ==
    IF ~IsSome(perp_metas) THEN {}
    ELSE LET data == Unwrap(perp_metas).data
         IN  { Unwrap(dex_of(data[i])) : i \in { j \in 2..Len(data) : IsSome(dex_of(data[j])) } }

\* the order of String: byte-wise lexicographic
StrLess(s, t) ==
    \E i \in 1..(Len(t)) :
        /\ \A j \in 1..(i - 1) : j <= Len(s) /\ s[j] = t[j]
        /\ \/ i = Len(s) + 1
           \/ i <= Len(s) /\ CharCode(s[i]) < CharCode(t[i])

RECURSIVE SortedSeq(_)
\* dexes.sort()
SortedSeq(S) ==
    IF S = {} THEN << >>
    ELSE LET m == CHOOSE x \in S : \A y \in S \ {x} : StrLess(x, y)
         IN  << m >> \o SortedSeq(S \ {m})

PushFetchedDiscard(ctxs, dexes, okset) ==
    IF dexes = << >> THEN ctxs
    ELSE IF Head(dexes) \in okset
         THEN Append(ctxs, << Head(dexes), DexCtxs(Head(dexes)) >>)
         ELSE << ctxs[1] >>

RECURSIVE PushFetched(_, _, _)
\* the loop over dexes: a venue whose fetch fails is logged and skipped
PushFetched(ctxs, dexes, okset) ==
    IF dexes = << >> THEN ctxs
    ELSE PushFetched(IF Head(dexes) \in okset
                        THEN Append(ctxs, << Head(dexes), DexCtxs(Head(dexes)) >>)
                        ELSE ctxs,
                     Tail(dexes), okset)


\* ------------------------------------------------------------------------
\* The lines a client can send
\* ------------------------------------------------------------------------
\* method names the table does not hold: a known name in another case, and
\* a name of no method
OtherMethods == {"getprices", "Shutdown", "unknownMethod"}

CoinInputs == { <<"a">>, <<"A">>, <<"b">>, <<"a", "B">> }

\* the value under "coin" in params: absent, a number, a string
CoinParams ==
    { [t |-> "none", s |-> << >>], [t |-> "num", s |-> << >>] }
        \cup { [t |-> "str", s |-> coin] : coin \in CoinInputs }

\* what a line holds: nothing but white space; bytes that are not UTF-8; text
\* that is not JSON; a JSON object without "id", with a number as "id", without
\* "method"; an object or an array with a string id and a method
LineKinds == {"blank", "bad_utf8", "not_json", "no_id", "num_id", "no_method", "object", "array"}

Lines ==
    { [kind |-> k, method |-> "getStatus", params |-> [t |-> "none", s |-> << >>]] :
        k \in LineKinds \ {"object"} }
    \cup { [kind |-> "object", method |-> m, params |-> [t |-> "none", s |-> << >>]] :
             m \in (Methods \cup OtherMethods) }
    \cup { [kind |-> "object", method |-> "getPrices", params |-> cp] : cp \in CoinParams }
    \cup { [kind |-> "array", method |-> "shutdown", params |-> [t |-> "none", s |-> << >>]] }

\* serde_json::from_str::<RpcRequest>(line): id and method are required
\* strings, params is optional; the derived Deserialize takes an object and
\* also a sequence [id, method, params?]
decode(line, id) ==
    IF line.kind \in {"object", "array"}
    THEN Some([id |-> id, method |-> line.method, params |-> line.params])
    ELSE None

\* ------------------------------------------------------------------------
\* State
\* ------------------------------------------------------------------------
Conns == {1, 2}
Scheds == {"mids", "perp_ctxs", "perp_metas", "spot"}

VARIABLES
    now,        \* the wall clock, in milliseconds since the daemon started
    ticks,      \* how often the clock has moved
    went_back,  \* whether the clock has ever moved backwards
    testnet,    \* args.testnet
    started_at, \* the clock value real_main reads before server_main
    cache,      \* the ServerCache behind the RwLock
    hist,       \* per slot, the data and the clock value of its latest successful refresh
    fetches,    \* how many fetches are counted against MaxFetches
    sched,      \* per scheduler task: "unspawned", "init", "loop" or "stopped", and
                \* within a cycle "fetching", "rlock", "reading", "venues", "wlock", "writing"
    shutdown,   \* the value of the watch channel
    main,       \* the main thread: its position in real_main before the accept loop,
                \* then "accept", "stopping" (loop left) or "exited"
    main_why,   \* what ended the start-up or the accept loop
    conn,       \* per connection: its task's position, the kind of the line read last,
                \* the request decoded and its pending response, the requests decoded,
                \* whether it sent shutdown
    out,        \* per connection: the responses written and flushed to the client
    lines,      \* how many lines the connections have read
    last,       \* the latest call of handle_request: request, clock value, outcome
    errlog,     \* the fetch error a scheduler is writing to the log
    files,      \* which of the pid, config (status) and socket files exist
    cleanups,   \* how often cleanup_files has run
    client,     \* a ServerClient and the request it has outstanding
    due,        \* per scheduler: the deadline of the next tick of its interval
    pend,       \* per scheduler: what its cycle has fetched and not yet written
    lock,       \* the RwLock of the cache: its writer and its readers
    daemon,     \* two daemons on one data directory: the position of each launcher
                \* and of the hl-server process it starts
    disk        \* the data directory they share: whose listener the socket path
                \* leads to, whose pid and whose status the two files hold

vars == << now, ticks, went_back, testnet, started_at, cache, hist, fetches, sched,
           shutdown, main, main_why, conn, out, lines, last, errlog, files, cleanups, client,
           due, pend, lock, daemon, disk >>

clockVars == << now, ticks, went_back >>
taskVars == << due, pend, lock >>
dirVars == << daemon, disk >>
envVars == << testnet, started_at, client, taskVars, dirVars >>
cacheVars == << cache, hist, fetches, errlog >>
mainVars == << main, main_why, files, cleanups >>
connVars == << conn, out, lines, last >>

IdleConn ==
    [pc |-> "idle", kind |-> "none", req |-> None, resp |-> None, should |-> FALSE, nreq |-> 0,
     sent |-> FALSE]

\* the three files of a running daemon
Files == {"pid", "config", "socket"}

\* ServerClient::connect: a connected client that has sent no request
NewClient ==
    [pc |-> "idle", request_id |-> 0, ids |-> << >>, method |-> "none", probing |-> FALSE,
     tc |-> "none", path_ok |-> TRUE, connected |-> TRUE, res |-> "none", ret |-> None, got |-> None,
     elapsed |-> 0, waited |-> 0, skipped |-> 0]

\* before connect or try_connect is called there is no client
NoClient == [NewClient EXCEPT !.pc = "absent", !.connected = FALSE]

\* every interval is created when its task starts, and its first tick is due
\* at once; no cycle has fetched anything; the lock is free
NoLock == [writer |-> None, readers |-> {}]
NewTasks ==
    /\ due = [s \in Scheds |-> 0]
    /\ pend = [s \in Scheds |-> None]
    /\ lock = NoLock

\* two launchers that have not begun, and an empty data directory
Daemons == {1, 2}
EmptyDisk == [socket |-> None, pid |-> None, config |-> None]
NewDir ==
    /\ daemon = [d \in Daemons |-> "absent"]
    /\ disk = EmptyDisk

\* the position of each scheduler task once it is spawned: the perp-metadata
\* task fetches once before its loop
Spawned == [s \in Scheds |-> IF s = "perp_metas" THEN "init" ELSE "loop"]

Init ==
    /\ now = 0
    /\ ticks = 0
    /\ went_back = FALSE
    /\ testnet \in BOOLEAN
    /\ started_at = 0
    /\ cache = EmptyCache
    /\ hist = EmptyCache
    /\ fetches = 0
    /\ sched = Spawned
    /\ shutdown = FALSE
    /\ main = "accept"
    /\ main_why = "none"
    /\ conn = [c \in Conns |-> IdleConn]
    /\ out = [c \in Conns |-> << >>]
    /\ lines = 0
    /\ last = None
    /\ errlog = None
    /\ files = Files
    /\ cleanups = 0
    /\ client = NewClient
    /\ NewTasks
    /\ NewDir

\* the process is alive: its tasks run until server_main has returned
Alive == main # "exited"

\* logger.log("Error fetching ..."): the scheduler and whether its slot was
\* populated when the fetch failed
Logged(s, slot) == Some([sched |-> s, had |-> IsSome(cache[slot])])

\* Logger::log has appended the line to the log file
LogDone ==
    /\ errlog # None
    /\ errlog' = None
    /\ UNCHANGED << clockVars, envVars, cache, hist, fetches, sched, shutdown, mainVars, connVars >>

\* ------------------------------------------------------------------------
\* The clock
\* ------------------------------------------------------------------------
Tick(d) ==
    /\ Alive
    /\ ticks < MaxTicks
    /\ now + d >= 0
    /\ d < 0 => ~went_back
    /\ now' = now + d
    /\ ticks' = ticks + 1
    /\ went_back' = (went_back \/ d < 0)
    /\ UNCHANGED << envVars, cacheVars, sched, shutdown, mainVars, connVars >>

\* ------------------------------------------------------------------------
\* The refresh schedulers: one cycle is a fetch and, on success, the write
\* ------------------------------------------------------------------------
\* the scheduler s is in its loop and its tick fires; a fetch that succeeds
\* is counted against the bound
CanFetch(s, res) == Alive /\ sched[s] = "loop" /\ (IsSome(res) => fetches < MaxFetches)
Counted(res) == fetches' = fetches + (IF IsSome(res) THEN 1 ELSE 0)

on_fetch_error_evict(c, slot) == [c EXCEPT ![slot] = None]
on_fetch_error_bump(c, slot) ==
    IF IsSome(c[slot])
    THEN [c EXCEPT ![slot] = Some(CacheEntry(Unwrap(c[slot]).data, Unwrap(c[slot]).updated_at + 1))]
    ELSE c
on_fetch_error_stamp(c, slot) ==
    IF IsSome(c[slot]) THEN [c EXCEPT ![slot] = Some(CacheEntry(Unwrap(c[slot]).data, now))] ELSE c
\* Err(e) => logger.log(..): the error is logged, the slot is left as it is
on_fetch_error(c, slot) == c

\* allMids: Ok(mids) => cache.write().await.set_mids(mids)
MidsCycle(res) ==
    /\ CanFetch("mids", res)
    /\ Counted(res)
    /\ IF IsSome(res)
       THEN /\ cache' = set_mids(cache, Unwrap(res), now)
            /\ hist' = [hist EXCEPT !["mids"] = Some(CacheEntry(Unwrap(res), now))]
            /\ UNCHANGED errlog
       ELSE /\ cache' = on_fetch_error(cache, "mids")
            /\ errlog' = Logged("mids", "mids")
            /\ UNCHANGED hist
    /\ UNCHANGED << clockVars, envVars, sched, shutdown, mainVars, connVars >>

\* the asset-contexts list of one cycle: the primary venue, then the venues
\* read from the cached perp metadata whose fetch succeeded, in sorted order
cycle_ctxs(c, default_ctxs, okset) ==
    [ctxs |-> PushFetched(<< << << >>, default_ctxs >> >>, SortedSeq(dex_set(c["perp_metas"])), okset)]

\* metaAndAssetCtxs: the primary venue, then every venue in turn
PerpCtxsCycle(res, okset) ==
    /\ CanFetch("perp_ctxs", res)
    /\ Counted(res)
    /\ IF IsSome(res)
       THEN /\ okset \subseteq dex_set(cache["perp_metas"])
            /\ cache' = set_asset_ctxs(cache, cycle_ctxs(cache, Unwrap(res), okset), now)
            /\ hist' = [hist EXCEPT !["asset_ctxs"] =
                            Some(CacheEntry(cycle_ctxs(cache, Unwrap(res), okset), now))]
            /\ errlog' = IF okset = dex_set(cache["perp_metas"]) THEN errlog
                          ELSE Logged("perp_venue", "asset_ctxs")
       ELSE /\ cache' = on_fetch_error(cache, "asset_ctxs")
            /\ errlog' = Logged("perp_ctxs", "asset_ctxs")
            /\ UNCHANGED hist
    /\ UNCHANGED << clockVars, envVars, sched, shutdown, mainVars, connVars >>

\* the position of the perp-metadata task after a fetch: the fetch before
\* the loop is followed by the loop
after_perp_metas(pc) == IF pc = "init" THEN "loop" ELSE pc

\* allPerpMetas: once before the loop ("init"), then on every tick
PerpMetasCycle(res) ==
    /\ Alive
    /\ sched["perp_metas"] \in {"init", "loop"}
    /\ IsSome(res) => fetches < MaxFetches
    /\ Counted(res)
    /\ sched' = [sched EXCEPT !["perp_metas"] = after_perp_metas(@)]
    /\ IF IsSome(res)
       THEN /\ cache' = set_perp_metas(cache, Unwrap(res), now)
            /\ hist' = [hist EXCEPT !["perp_metas"] = Some(CacheEntry(Unwrap(res), now))]
            /\ UNCHANGED errlog
       ELSE /\ cache' = on_fetch_error(cache, "perp_metas")
            /\ errlog' = Logged("perp_metas", "perp_metas")
            /\ UNCHANGED hist
    /\ UNCHANGED << clockVars, envVars, shutdown, mainVars, connVars >>

\* spotMetaAndAssetCtxs: both slots under one write guard; each set_ reads
\* the clock, which may move by d between the two reads
SpotCycle(res, d) ==
    /\ CanFetch("spot", res)
    /\ Counted(res)
    /\ IF IsSome(res)
       THEN /\ d = 0 \/ (d = 1 /\ ticks < MaxTicks)
            /\ cache' = set_spot_ctxs(set_spot_meta(cache, Unwrap(res)[1], now),
                                      Unwrap(res)[2], now + d)
            /\ hist' = [hist EXCEPT !["spot_meta"] = Some(CacheEntry(Unwrap(res)[1], now)),
                                    !["spot_ctxs"] = Some(CacheEntry(Unwrap(res)[2], now + d))]
            /\ now' = now + d
            /\ ticks' = ticks + d
            /\ UNCHANGED << went_back, errlog >>
       ELSE /\ d = 0
            /\ cache' = on_fetch_error(on_fetch_error(cache, "spot_meta"), "spot_ctxs")
            /\ errlog' = Logged("spot", "spot_meta")
            /\ UNCHANGED << hist, clockVars >>
    /\ UNCHANGED << envVars, sched, shutdown, mainVars, connVars >>

\* shutdown.changed() => if *shutdown.borrow() { break; }
SchedStop(s) ==
    /\ Alive
    /\ sched[s] = "loop"
    /\ shutdown
    /\ sched' = [sched EXCEPT ![s] = "stopped"]
    /\ UNCHANGED << clockVars, envVars, cacheVars, shutdown, mainVars, connVars >>


\* ------------------------------------------------------------------------
\* The refresh schedulers, one step per await: the tick, the fetch, the
\* lock, the write
\* ------------------------------------------------------------------------
\* tokio::time::interval(..) of each task, in milliseconds
MidsPeriodMs == 500
PerpCtxsPeriodMs == 1500
PerpMetasPeriodMs == 60000
SpotPeriodMs == 1500
period(s) ==
    CASE s = "mids"       -> MidsPeriodMs
      [] s = "perp_ctxs"  -> PerpCtxsPeriodMs
      [] s = "perp_metas" -> PerpMetasPeriodMs
      [] s = "spot"       -> SpotPeriodMs

\* what the fetch of each scheduler returns, and the slot its error names
FetchData(s) ==
    CASE s = "mids"       -> MidsSnapshots
      [] s = "perp_ctxs"  -> DefaultCtxs
      [] s = "perp_metas" -> PerpMetaSnapshots
      [] s = "spot"       -> SpotSnapshots
first_slot(s) ==
    CASE s = "mids"       -> "mids"
      [] s = "perp_ctxs"  -> "asset_ctxs"
      [] s = "perp_metas" -> "perp_metas"
      [] s = "spot"       -> "spot_meta"

\* the positions in which a task awaits an upstream fetch, and those
\* between the start of a fetch and the end of its cycle
InFlight == {"fetching", "venues"}
InCycle == {"fetching", "rlock", "reading", "venues", "wlock", "writing"}

\* the schedulers that hold a guard of the lock
holders(l) == l.readers \cup (IF IsSome(l.writer) THEN {Unwrap(l.writer)} ELSE {})

drop_guard_never(l, s) == l

\* a guard goes out of scope
drop_guard(l, s) ==
    [writer |-> IF l.writer = Some(s) THEN None ELSE l.writer, readers |-> l.readers \ {s}]

taskFrame == << testnet, started_at, client, shutdown, mainVars, connVars, dirVars >>

\* select!: interval.tick() is ready and its branch is taken, whatever the
\* shutdown branch has to say; the perp-metadata task also fetches once
\* before its loop. The next tick is due one period after this one was.
fetch_begin(s) == Alive /\ (sched[s] = "init" \/ (sched[s] = "loop" /\ now >= due[s]))

FetchBegin(s) ==
    /\ fetch_begin(s)
    /\ fetches < MaxFetches
    /\ fetches' = fetches + 1
    /\ due' = IF sched[s] = "loop" THEN [due EXCEPT ![s] = @ + period(s)] ELSE due
    /\ sched' = [sched EXCEPT ![s] = "fetching"]
    /\ UNCHANGED << clockVars, cache, hist, errlog, pend, lock, taskFrame >>

\* the fetch returns: Err is logged and the cycle is over; Ok goes on to
\* the read lock (perp contexts) or to the write lock
FetchDone(s, res) ==
    /\ Alive
    /\ sched[s] = "fetching"
    /\ IF ~IsSome(res)
       THEN /\ errlog' = Logged(s, first_slot(s))
            /\ cache' = on_fetch_error(cache, first_slot(s))
            /\ sched' = [sched EXCEPT ![s] = "loop"]
            /\ UNCHANGED pend
       ELSE /\ pend' = [pend EXCEPT ![s] =
                            IF s = "perp_ctxs"
                            THEN Some([default |-> Unwrap(res), all |-> << >>, dexes |-> << >>,
                                       ctxs |-> << >>, failed |-> {}])
                            ELSE Some(Unwrap(res))]
            /\ sched' = [sched EXCEPT ![s] = IF s = "perp_ctxs" THEN "rlock" ELSE "wlock"]
            /\ UNCHANGED << cache, errlog >>
    /\ UNCHANGED << clockVars, hist, fetches, due, lock, taskFrame >>

\* let r = cache.read().await
AcquireRead ==
    /\ Alive
    /\ sched["perp_ctxs"] = "rlock"
    /\ ~IsSome(lock.writer)
    /\ lock' = [lock EXCEPT !.readers = @ \cup {"perp_ctxs"}]
    /\ sched' = [sched EXCEPT !["perp_ctxs"] = "reading"]
    /\ UNCHANGED << clockVars, cacheVars, due, pend, taskFrame >>

\* the block that computes dexes from r.perp_metas and drops r at its end;
\* then ctxs.push((String::new(), default_ctxs))
PerpRead ==
    LET dexes == SortedSeq(dex_set(cache["perp_metas"]))
        p == Unwrap(pend["perp_ctxs"])
    IN  /\ Alive
        /\ sched["perp_ctxs"] = "reading"
        /\ pend' = [pend EXCEPT !["perp_ctxs"] =
                        Some([p EXCEPT !.all = dexes, !.dexes = dexes,
                                       !.ctxs = << << << >>, p.default >> >>])]
        /\ lock' = drop_guard(lock, "perp_ctxs")
        /\ sched' = [sched EXCEPT !["perp_ctxs"] = IF dexes = << >> THEN "wlock" ELSE "venues"]
        /\ UNCHANGED << clockVars, cacheVars, due, taskFrame >>

\* for dex in dexes: the fetch of one venue returns; Ok pushes its pair,
\* Err is logged and the loop goes on
VenueDone(ok) ==
    LET p == Unwrap(pend["perp_ctxs"])
        dex == Head(p.dexes)
    IN  /\ Alive
        /\ sched["perp_ctxs"] = "venues"
        /\ pend' = [pend EXCEPT !["perp_ctxs"] =
                        Some([p EXCEPT !.dexes = Tail(p.dexes),
                                       !.ctxs = PushFetched(p.ctxs, << dex >>,
                                                            IF ok THEN {dex} ELSE {}),
                                       !.failed = IF ok THEN @ ELSE @ \cup {dex}])]
        /\ errlog' = IF ok THEN errlog ELSE Logged("perp_venue", "asset_ctxs")
        /\ sched' = [sched EXCEPT !["perp_ctxs"] =
                         IF Tail(p.dexes) = << >> THEN "wlock" ELSE "venues"]
        /\ UNCHANGED << clockVars, cache, hist, fetches, due, lock, taskFrame >>

\* cache.write().await
AcquireWrite(s) ==
    /\ Alive
    /\ sched[s] = "wlock"
    /\ lock = NoLock
    /\ lock' = [lock EXCEPT !.writer = Some(s)]
    /\ sched' = [sched EXCEPT ![s] = "writing"]
    /\ UNCHANGED << clockVars, cacheVars, due, pend, taskFrame >>

\* the slots of s after its write, the second set_ of the spot task
\* reading the clock d later than the first
written(s, c, data, t, d) ==
    CASE s = "mids"       -> set_mids(c, data, t)
      [] s = "perp_ctxs"  -> set_asset_ctxs(c, [ctxs |-> data.ctxs], t)
      [] s = "perp_metas" -> set_perp_metas(c, data, t)
      [] s = "spot"       -> set_spot_ctxs(set_spot_meta(c, data[1], t), data[2], t + d)

\* what the task has put into its slots by now
recorded(s, h, data, t, d) ==
    CASE s = "mids"       -> [h EXCEPT !["mids"] = Some(CacheEntry(data, t))]
      [] s = "perp_ctxs"  -> [h EXCEPT !["asset_ctxs"] = Some(CacheEntry([ctxs |-> data.ctxs], t))]
      [] s = "perp_metas" -> [h EXCEPT !["perp_metas"] = Some(CacheEntry(data, t))]
      [] s = "spot"       -> [h EXCEPT !["spot_meta"] = Some(CacheEntry(data[1], t)),
                                       !["spot_ctxs"] = Some(CacheEntry(data[2], t + d))]

\* set_..(..) under the write guard, which is dropped at the end of the
\* statement; the cycle is over
Write(s, d) ==
    /\ Alive
    /\ sched[s] = "writing"
    /\ d = 0 \/ (d = 1 /\ s = "spot" /\ ticks < MaxTicks)
    /\ cache' = written(s, cache, Unwrap(pend[s]), now, d)
    /\ hist' = recorded(s, hist, Unwrap(pend[s]), now, d)
    /\ now' = now + d
    /\ ticks' = ticks + d
    /\ lock' = drop_guard(lock, s)
    /\ pend' = [pend EXCEPT ![s] = None]
    /\ sched' = [sched EXCEPT ![s] = "loop"]
    /\ UNCHANGED << went_back, fetches, errlog, due, taskFrame >>


\* ------------------------------------------------------------------------
\* Two daemons on one data directory: server_start in hl.rs, then real_main
\* and server_main of the process it spawns
\* ------------------------------------------------------------------------
dirFrame == << clockVars, testnet, started_at, client, taskVars, cacheVars, sched, shutdown,
               mainVars, connVars >>

\* try_connect() answers with a client: the socket path leads to the
\* listener of a daemon that is in its accept loop
Responsive == IsSome(disk.socket) /\ daemon[Unwrap(disk.socket)] = "accept"

\* server_start: if try_connect() finds a daemon, "Server is already running"
ServerStartProbe(d) ==
    /\ daemon[d] = "absent"
    /\ daemon' = [daemon EXCEPT ![d] = IF Responsive THEN "refused" ELSE "probed"]
    /\ UNCHANGED << disk, dirFrame >>

\* if the socket path exists, fs::remove_file: whatever it leads to
remove_socket(dk) == [dk EXCEPT !.socket = None]

\* server_start: the socket file, if there is one, is removed as stale and
\* rhl-server is spawned
ServerStartSpawn(d) ==
    /\ daemon[d] = "probed"
    /\ disk' = remove_socket(disk)
    /\ daemon' = [daemon EXCEPT ![d] = "start"]
    /\ UNCHANGED dirFrame

\* real_main: remove_existing_socket
DaemonRemoveSocket(d) ==
    /\ daemon[d] = "start"
    /\ disk' = remove_socket(disk)
    /\ daemon' = [daemon EXCEPT ![d] = "socket_removed"]
    /\ UNCHANGED dirFrame

\* real_main: daemonize_if_needed, the launcher passes --daemonize
DaemonDetach(d) ==
    /\ daemon[d] = "socket_removed"
    /\ daemon' = [daemon EXCEPT ![d] = "detached"]
    /\ UNCHANGED << disk, dirFrame >>

\* real_main: write_pid_and_config overwrites both files
DaemonWritePid(d) ==
    /\ daemon[d] = "detached"
    /\ disk' = [disk EXCEPT !.pid = Some(d), !.config = Some(d)]
    /\ daemon' = [daemon EXCEPT ![d] = "marked"]
    /\ UNCHANGED dirFrame

\* server_main: UnixListener::bind fails when the path exists, and the
\* process exits; otherwise the path leads to this listener and the accept
\* loop begins
DaemonBind(d) ==
    /\ daemon[d] = "marked"
    /\ IF IsSome(disk.socket)
       THEN daemon' = [daemon EXCEPT ![d] = "exited"] /\ UNCHANGED disk
       ELSE /\ daemon' = [daemon EXCEPT ![d] = "accept"]
            /\ disk' = [disk EXCEPT !.socket = Some(d)]
    /\ UNCHANGED dirFrame

\* the accept loop ends on a signal or the flag: cleanup_files removes the
\* three paths that exist, and the process exits
DaemonStop(d) ==
    /\ daemon[d] = "accept"
    /\ disk' = EmptyDisk
    /\ daemon' = [daemon EXCEPT ![d] = "exited"]
    /\ UNCHANGED dirFrame

\* the command is run again after its daemon has gone or was refused
ServerStartAgain(d) ==
    /\ daemon[d] \in {"refused", "exited"}
    /\ daemon' = [daemon EXCEPT ![d] = "absent"]
    /\ UNCHANGED << disk, dirFrame >>


\* ------------------------------------------------------------------------
\* real_main and server_main: the start-up, one step per call that can fail
\* ------------------------------------------------------------------------
\* a step of the start-up that fails with ?: main prints the error and exits
StartupFails(why) ==
    /\ main' = "exited"
    /\ main_why' = why
    /\ UNCHANGED << files, cleanups, sched >>

\* ensure_hl_dir()?
EnsureDir(ok) ==
    /\ main = "start"
    /\ IF ok THEN main' = "dir" /\ UNCHANGED << main_why, files, cleanups, sched >>
             ELSE StartupFails("dir")
    /\ UNCHANGED << clockVars, envVars, cacheVars, shutdown, connVars >>

\* remove_existing_socket(&logger)?
RemoveExistingSocket(ok) ==
    /\ main = "dir"
    /\ IF ok THEN /\ main' = "socket_removed"
                  /\ files' = files \ {"socket"}
                  /\ UNCHANGED << main_why, cleanups, sched >>
             ELSE /\ "socket" \in files
                  /\ StartupFails("remove_socket")
    /\ UNCHANGED << clockVars, envVars, cacheVars, shutdown, connVars >>

\* daemonize_if_needed(&args, &logger)?
Daemonize(ok) ==
    /\ main = "socket_removed"
    /\ IF ok THEN main' = "detached" /\ UNCHANGED << main_why, files, cleanups, sched >>
             ELSE StartupFails("daemonize")
    /\ UNCHANGED << clockVars, envVars, cacheVars, shutdown, connVars >>

\* write_pid_and_config(..)?: the pid file, then the config file; r tells
\* which of the two writes fails, if any
WritePidAndConfig(r) ==
    /\ main = "detached"
    /\ CASE r = "ok" ->
                /\ main' = "marked"
                /\ files' = files \cup {"pid", "config"}
                /\ UNCHANGED << main_why, cleanups, sched >>
         [] r = "pid_fails" ->
                StartupFails("write_pid")
         [] r = "config_fails" ->
                /\ main' = "exited"
                /\ main_why' = "write_config"
                /\ files' = files \cup {"pid"}
                /\ UNCHANGED << cleanups, sched >>
    /\ UNCHANGED << clockVars, envVars, cacheVars, shutdown, connVars >>

\* the tokio runtime is built and server_main begins: HlApi::new(testnet)?
BuildRuntime(ok) ==
    /\ main = "marked"
    /\ IF ok THEN main' = "runtime" /\ UNCHANGED << main_why, files, cleanups, sched >>
             ELSE StartupFails("runtime")
    /\ UNCHANGED << clockVars, envVars, cacheVars, shutdown, connVars >>

\* spawn_pollers(..): the four tasks are spawned and run from now on
SpawnPollers ==
    /\ main = "runtime"
    /\ main' = "spawned"
    /\ sched' = Spawned
    /\ UNCHANGED << main_why, files, cleanups >>
    /\ UNCHANGED << clockVars, envVars, cacheVars, shutdown, connVars >>

\* UnixListener::bind(&socket_path)?
Bind(ok) ==
    /\ main = "spawned"
    /\ IF ok THEN /\ main' = "bound"
                  /\ files' = files \cup {"socket"}
                  /\ UNCHANGED << main_why, cleanups, sched >>
             ELSE StartupFails("bind")
    /\ UNCHANGED << clockVars, envVars, cacheVars, shutdown, connVars >>

\* signal(SignalKind::terminate())?, then the accept loop is entered
RegisterSigterm(ok) ==
    /\ main = "bound"
    /\ IF ok THEN main' = "accept" /\ UNCHANGED << main_why, files, cleanups, sched >>
             ELSE StartupFails("sigterm")
    /\ UNCHANGED << clockVars, envVars, cacheVars, shutdown, connVars >>

\* ------------------------------------------------------------------------
\* server_main: the accept loop
\* ------------------------------------------------------------------------
\* listener.accept() => tokio::spawn(handle_connection(..))
Accept(c) ==
    /\ main = "accept"
    /\ conn[c].pc = "idle"
    /\ conn' = [conn EXCEPT ![c].pc = "read"]
    /\ UNCHANGED << clockVars, envVars, cacheVars, sched, shutdown, mainVars,
                    out, lines, last >>

\* accept_res? with an error: server_main returns it and real_main exits
AcceptErr ==
    /\ main = "accept"
    /\ main' = "exited"
    /\ main_why' = "accept_err"
    /\ UNCHANGED << files, cleanups >>
    /\ UNCHANGED << clockVars, envVars, cacheVars, sched, shutdown, connVars >>

\* ctrl_c / sigterm.recv(): send(true) and break
Signal(sig) ==
    /\ main = "accept"
    /\ shutdown' = TRUE
    /\ main' = "stopping"
    /\ main_why' = sig
    /\ UNCHANGED << files, cleanups >>
    /\ UNCHANGED << clockVars, envVars, cacheVars, sched, connVars >>

\* shutdown_rx_accept.changed() => if *shutdown_rx_accept.borrow() { break; }
AcceptShutdown ==
    /\ main = "accept"
    /\ shutdown
    /\ main' = "stopping"
    /\ main_why' = "flag"
    /\ UNCHANGED << files, cleanups >>
    /\ UNCHANGED << clockVars, envVars, cacheVars, sched, shutdown, connVars >>

\* cleanup_files: each of the three paths that exists is removed
cleanup_files(fs) == fs \ Files

\* after the loop: cleanup_files, then server_main returns and the runtime
\* with all its tasks is dropped
Cleanup ==
    /\ main = "stopping"
    /\ main' = "exited"
    /\ files' = cleanup_files(files)
    /\ cleanups' = cleanups + 1
    /\ UNCHANGED << clockVars, envVars, cacheVars, sched, shutdown, main_why,
                    connVars >>

\* ------------------------------------------------------------------------
\* handle_connection: read a line, dispatch, write, signal
\* ------------------------------------------------------------------------
InvalidJson == response_err("0", Msg("Invalid JSON", << >>))

\* the position after one line has been read, and what is to be written
after_read(c, line) ==
    LET id == ToString(conn[c].nreq + 1)
        req == decode(line, id)
    IN  CASE line.kind = "bad_utf8" ->
                \* reader.read_line(&mut buf).await? returns the error
                [pc |-> "closed", kind |-> "bad_utf8", req |-> None, resp |-> None, should |-> FALSE,
                 nreq |-> conn[c].nreq, sent |-> FALSE]
          [] line.kind = "blank" ->
                \* line.is_empty() => continue
                [pc |-> "read", kind |-> "blank", req |-> None, resp |-> None, should |-> FALSE,
                 nreq |-> conn[c].nreq, sent |-> FALSE]
          [] line.kind \notin {"bad_utf8", "blank"} /\ ~IsSome(req) ->
                [pc |-> "write", kind |-> "malformed", req |-> None, resp |-> Some(InvalidJson),
                 should |-> FALSE, nreq |-> conn[c].nreq, sent |-> FALSE]
          [] OTHER ->
                LET r == handle_request(Unwrap(req), cache, testnet, started_at, now)
                IN  [pc |-> "write", kind |-> "request", req |-> req, resp |-> Some(r[1]),
                     should |-> r[2], nreq |-> conn[c].nreq + 1, sent |-> FALSE]

ConnRead(c, line) ==
    /\ Alive
    /\ conn[c].pc = "read"
    /\ lines < MaxLines
    /\ lines' = lines + 1
    /\ conn' = [conn EXCEPT ![c] = after_read(c, line)]
    /\ UNCHANGED << clockVars, envVars, cacheVars, sched, shutdown, mainVars, out, last >>

ConnEofClosesAll(c) ==
    /\ Alive
    /\ conn[c].pc = "read"
    /\ conn' = [d \in Conns |-> [conn[d] EXCEPT !.pc = "closed", !.kind = "eof"]]
    /\ UNCHANGED << clockVars, envVars, cacheVars, sched, shutdown, mainVars,
                    out, lines, last >>

\* read_line returned 0: the client has closed its end
ConnEof(c) ==
    /\ Alive
    /\ conn[c].pc = "read"
    /\ conn' = [conn EXCEPT ![c].pc = "closed", ![c].kind = "eof"]
    /\ UNCHANGED << clockVars, envVars, cacheVars, sched, shutdown, mainVars,
                    out, lines, last >>

after_write_unchecked(kind, ok, should) ==
    IF kind = "malformed" THEN "read"
    ELSE IF should THEN "signal"
    ELSE IF ok THEN "read" ELSE "closed"
\* the position after write_all, write_all, flush: the "Invalid JSON" arm
\* drops their errors and continues; the request arm returns them with ?,
\* and after a shutdown request goes on to signal
after_write(kind, ok, should) ==
    IF kind = "malformed" THEN "read"
    ELSE IF ~ok THEN "closed"
    ELSE IF should THEN "signal" ELSE "read"

\* the pending response is written and flushed (ok), or the write fails
ConnWrite(c, ok) ==
    /\ Alive
    /\ conn[c].pc = "write"
    /\ out' = [out EXCEPT ![c] = IF ok THEN Append(@, Unwrap(conn[c].resp)) ELSE @]
    /\ conn' = [conn EXCEPT ![c].pc = after_write(conn[c].kind, ok, conn[c].should),
                            ![c].req = None, ![c].resp = None]
    /\ UNCHANGED << clockVars, envVars, cacheVars, sched, shutdown, mainVars, lines, last >>

\* if should_shutdown { let _ = shutdown_tx.send(true); break; }
ConnSignal(c) ==
    /\ Alive
    /\ conn[c].pc = "signal"
    /\ shutdown' = TRUE
    /\ conn' = [conn EXCEPT ![c].pc = "closed", ![c].sent = TRUE]
    /\ UNCHANGED << clockVars, envVars, cacheVars, sched, mainVars, out, lines, last >>

\* ------------------------------------------------------------------------
\* handle_request called on the cache as it is, as a connection task does
\* between reading a line and writing the response
\* ------------------------------------------------------------------------
Requests ==
    { [id |-> id, method |-> line.method, params |-> line.params] :
        id \in {"1", "2"}, line \in { l \in Lines : l.kind = "object" } }

Request(req) ==
    /\ Alive
    /\ last = None
    /\ LET r == handle_request(req, cache, testnet, started_at, now)
       IN  last' = Some([req |-> req, at |-> now, resp |-> r[1], should |-> r[2]])
    /\ UNCHANGED << clockVars, envVars, cacheVars, sched, shutdown, mainVars,
                    conn, out, lines >>

\* the response has gone to the caller
Respond ==
    /\ last # None
    /\ last' = None
    /\ UNCHANGED << clockVars, envVars, cacheVars, sched, shutdown, mainVars,
                    conn, out, lines >>

\* ------------------------------------------------------------------------
\* ServerClient (src/server/client.rs), with time in seconds
\* ------------------------------------------------------------------------
\* tokio::time::timeout(Duration::from_secs(5), self.reader.read_line(..))
ClientTimeoutS == 5

\* the ids a response line can carry: "0" (the server's id for a line it
\* could not parse) and the decimal text of the request numbers
IdStrings == {"0"} \cup {ToString(i) : i \in 1..MaxRequests}

\* the methods of the typed calls and the shape serde_json::from_value
\* expects of the result of each
ClientMethods == Methods
expected(method) ==
    CASE method = "getStatus"        -> "status"
      [] method = "getPrices"        -> "prices"
      [] method = "getAssetCtxs"     -> "asset_ctxs"
      [] method = "getPerpMeta"      -> "perp_meta"
      [] method = "getSpotMeta"      -> "spot_meta"
      [] method = "getSpotAssetCtxs" -> "spot_ctxs"
      [] OTHER                       -> "unit"

\* the JSON values of a "result" field, by the type they decode to
Shapes == {expected(m) : m \in ClientMethods \ {"shutdown"}} \cup {"junk"}
ErrTexts == {"No data available", "Missing result"}
CachedAts == {7}

\* struct RpcResponse { id, result, cached_at, error }
RpcResponse(id, result, cached_at, error) ==
    [id |-> id, result |-> result, cached_at |-> cached_at, error |-> error]
Responses ==
    { RpcResponse(id, result, cached_at, error) :
        id \in IdStrings,
        result \in {None} \cup {Some(v) : v \in Shapes},
        cached_at \in {None} \cup {Some(t) : t \in CachedAts},
        error \in {None} \cup {Some(e) : e \in ErrTexts} }

\* what one read_line of the client returns: a line that parses as an
\* RpcResponse, a line that does not, the end of the stream, an I/O error
NoResponse == RpcResponse("", None, None, None)
Reads ==
    {[kind |-> "line", resp |-> r] : r \in Responses}
        \cup {[kind |-> k, resp |-> NoResponse] : k \in {"invalid", "eof", "io"}}

\* how request() takes a read: a response with the id of the request, with
\* or without an error; a response with another id; a line that is no
\* response; the end of the stream; an I/O error
ClientLineKinds == {"match_ok", "match_err", "other_id", "invalid", "eof", "io"}

classify_any_id(read, id) ==
    IF read.kind = "line"
    THEN IF IsSome(read.resp.error) THEN "match_err" ELSE "match_ok"
    ELSE read.kind

\* if resp.id == id { if let Some(err) = &resp.error { Err } else { Ok } }
classify(read, id) ==
    IF read.kind = "line"
    THEN IF read.resp.id = id
         THEN IF IsSome(read.resp.error) THEN "match_err" ELSE "match_ok"
         ELSE "other_id"
    ELSE read.kind

\* the outcome of request() for a line that ends it
client_result(kind) ==
    CASE kind = "match_ok"  -> "ok"
      [] kind = "match_err" -> "err"
      [] kind = "invalid"   -> "invalid"
      [] kind = "eof"       -> "closed"
      [] kind = "io"        -> "io"

\* Result<T>: Ok with the data and its cached_at (None where the call has
\* none), Err with the message
CallOk(data, cached_at) == [ok |-> TRUE, data |-> Some(data), cached_at |-> cached_at, msg |-> ""]
CallErr(msg) == [ok |-> FALSE, data |-> None, cached_at |-> None, msg |-> msg]

\* the failure of request() for a read that ends it without a response
request_err(kind, resp) ==
    CASE kind = "match_err" -> CallErr(Unwrap(resp.error))
      [] kind = "invalid"   -> CallErr("Invalid server response")
      [] kind = "eof"       -> CallErr("Connection closed")
      [] kind = "io"        -> CallErr("io error")
      [] kind = "timeout"   -> CallErr("Request timeout")

\* serde_json::from_value(value).context("Invalid .. result")
from_value(method, value) ==
    IF value = expected(method) THEN CallOk(value, None) ELSE CallErr("Invalid result")

\* get_status: the result is required, cached_at is not looked at
client_get_status(resp) ==
    IF ~IsSome(resp.result) THEN CallErr("Missing result")
    ELSE from_value("getStatus", Unwrap(resp.result))

typed_getter_default_time(method, resp) ==
    IF ~IsSome(resp.result) THEN CallErr("Missing result")
    ELSE LET d == from_value(method, Unwrap(resp.result))
         IN  IF d.ok THEN CallOk(Unwrap(d.data), resp.cached_at) ELSE d

\* get_prices .. get_spot_asset_ctxs: cached_at is required, then the
\* result, then the result has to decode to the type of the method
typed_getter(method, resp) ==
    IF ~IsSome(resp.cached_at) THEN CallErr("Missing cached_at")
    ELSE IF ~IsSome(resp.result) THEN CallErr("Missing result")
    ELSE LET d == from_value(method, Unwrap(resp.result))
         IN  IF d.ok THEN CallOk(Unwrap(d.data), resp.cached_at) ELSE d

\* what a typed call makes of the response request() returned
typed_call(method, resp) ==
    CASE method = "shutdown"  -> CallOk("unit", None)
      [] method = "getStatus" -> client_get_status(resp)
      [] OTHER                -> typed_getter(method, resp)

clientFrame ==
    << clockVars, testnet, started_at, cacheVars, sched, shutdown, mainVars, connVars, taskVars,
       dirVars >>

call_returns_keeps_client(kind, ret, read) ==
    client' = [client EXCEPT
                 !.pc = "idle",
                 !.probing = FALSE,
                 !.tc = IF client.probing THEN "client" ELSE @,
                 !.res = kind,
                 !.ret = Some(ret),
                 !.got = read]

\* the end of a call: its outcome is returned; try_connect keeps the client
\* when its get_status call is Ok and drops it otherwise
call_returns(kind, ret, read) ==
    client' = [client EXCEPT
                 !.pc = IF client.probing /\ ~ret.ok THEN "dropped" ELSE "idle",
                 !.probing = FALSE,
                 !.tc = IF client.probing THEN (IF ret.ok THEN "client" ELSE "not_running") ELSE @,
                 !.res = kind,
                 !.ret = Some(ret),
                 !.got = read]

begin_request_id_first(method, ok, probing) ==
    LET c == [client EXCEPT !.request_id = @ + 1,
                            !.ids = Append(@, ToString(client.request_id)),
                            !.method = method, !.probing = probing,
                            !.res = "none", !.ret = None, !.got = None,
                            !.elapsed = 0, !.waited = 0, !.skipped = 0]
    IN  IF ok THEN [c EXCEPT !.pc = "wait"]
        ELSE [c EXCEPT !.pc = IF probing THEN "dropped" ELSE "idle",
                       !.probing = FALSE,
                       !.tc = IF probing THEN "not_running" ELSE @,
                       !.res = "io", !.ret = Some(CallErr("io error"))]

\* request(): the id is incremented, the line is written and flushed (ok) or
\* the write fails, then the first read_line begins with its own timeout
begin_request(method, ok, probing) ==
    LET c == [client EXCEPT !.request_id = @ + 1,
                            !.ids = Append(@, ToString(client.request_id + 1)),
                            !.method = method, !.probing = probing,
                            !.res = "none", !.ret = None, !.got = None,
                            !.elapsed = 0, !.waited = 0, !.skipped = 0]
    IN  IF ok THEN [c EXCEPT !.pc = "wait"]
        ELSE [c EXCEPT !.pc = IF probing THEN "dropped" ELSE "idle",
                       !.probing = FALSE,
                       !.tc = IF probing THEN "not_running" ELSE @,
                       !.res = "io", !.ret = Some(CallErr("io error"))]

\* a typed call on a connected client
ClientRequest(method, ok) ==
    /\ client.pc = "idle"
    /\ client.request_id < MaxRequests
    /\ client' = begin_request(method, ok, FALSE)
    /\ UNCHANGED clientFrame

\* a second passes in which no line arrives
ClientWait ==
    /\ client.pc = "wait"
    /\ client.waited < ClientTimeoutS
    /\ client' = [client EXCEPT !.waited = @ + 1, !.elapsed = @ + 1]
    /\ UNCHANGED clientFrame

\* the timeout of the pending read_line fires: "Request timeout"
ClientTimeout ==
    /\ client.pc = "wait"
    /\ client.waited = ClientTimeoutS
    /\ call_returns("timeout", request_err("timeout", NoResponse), None)
    /\ UNCHANGED clientFrame

\* read_line returns before its timeout: a line with another id is skipped
\* and the loop starts the next read_line with a new timeout
ClientLine(read) ==
    LET kind == classify(read, ToString(client.request_id))
    IN  /\ client.pc = "wait"
        /\ client.waited < ClientTimeoutS
        /\ IF kind = "other_id"
           THEN /\ client.skipped < MaxSkips
                /\ client' = [client EXCEPT !.skipped = @ + 1, !.waited = 0]
           ELSE call_returns(client_result(kind),
                             IF kind = "match_ok" THEN typed_call(client.method, read.resp)
                             ELSE request_err(kind, read.resp),
                             Some(read))
        /\ UNCHANGED clientFrame

\* the listener of the daemon exists from the bind to the return of
\* server_main; a socket file can outlive it
Listening == main \in {"bound", "accept", "stopping"}

\* is_server_running(): the socket path is computed (paths::hl_dir can
\* fail) and its existence is the answer
is_server_running(path_ok) ==
    IF ~path_ok THEN "error" ELSE IF "socket" \in files THEN "true" ELSE "false"

\* ServerClient::connect(): a client with request_id 0, or an error
Connect(path_ok, ok) ==
    /\ client.pc = "absent"
    /\ client' = IF path_ok /\ "socket" \in files /\ Listening /\ ok
                 THEN NewClient
                 ELSE [client EXCEPT !.pc = "dropped"]
    /\ UNCHANGED clientFrame

\* try_connect(): Ok(None) unless the socket path exists, the connect
\* succeeds and get_status is Ok; the error of is_server_running is passed on
TryConnect(path_ok, ok, sent) ==
    /\ client.pc = "absent"
    /\ client' =
         IF is_server_running(path_ok) = "error"
         THEN [client EXCEPT !.pc = "dropped", !.tc = "error", !.path_ok = FALSE]
         ELSE IF is_server_running(path_ok) = "false"
         THEN [client EXCEPT !.pc = "dropped", !.tc = "not_running"]
         ELSE IF ~(Listening /\ ok)
         THEN [client EXCEPT !.pc = "dropped", !.tc = "not_running", !.connected = FALSE]
         ELSE [begin_request("getStatus", sent, TRUE) EXCEPT !.connected = TRUE]
    /\ UNCHANGED clientFrame

\* ------------------------------------------------------------------------
\* The specifications
\* ------------------------------------------------------------------------
FetchResults(S) == {None} \cup { Some(x) : x \in S }
AllDexes == { << >>, <<"a">>, <<"b">> }

\* the lines the protocol specification sends
ProtoLines ==
    { l \in Lines :
        \/ l.kind # "object"
        \/ l.method \in {"getStatus", "shutdown", "unknownMethod"}
        \/ l.method = "getPrices" /\ l.params.t = "str" /\ l.params.s = <<"b">> }

\* the daemon with its connections: the accept loop, the connection tasks,
\* the shutdown flag and the mids scheduler (the other fetches fail)
Next ==
    \/ /\ errlog = None
       /\ \/ \E res \in FetchResults(MidsSnapshots) : MidsCycle(res)
          \/ \E c \in Conns : Accept(c)
          \/ AcceptErr
          \/ \E sig \in {"sigint", "sigterm"} : Signal(sig)
          \/ AcceptShutdown
          \/ Cleanup
          \/ \E c \in Conns, line \in ProtoLines : ConnRead(c, line)
          \/ \E c \in Conns : ConnEof(c)
          \/ \E c \in Conns, ok \in BOOLEAN : ConnWrite(c, ok)
          \/ \E c \in Conns : ConnSignal(c)
    \/ LogDone

Spec == Init /\ [][Next]_vars

\* the running daemon seen through handle_request: the clock, the four
\* schedulers (every secondary venue answers) and requests of every kind,
\* each answered, and each error logged, before the next step
NextCache ==
    \/ /\ last = None
       /\ errlog = None
       /\ \/ \E d \in ClockSteps : Tick(d)
          \/ \E res \in FetchResults(MidsSnapshots) : MidsCycle(res)
          \/ \E res \in FetchResults(DefaultCtxs), okset \in SUBSET AllDexes :
                PerpCtxsCycle(res, okset)
          \/ \E res \in FetchResults(PerpMetaSnapshots) : PerpMetasCycle(res)
          \/ \E res \in FetchResults(SpotSnapshots), d \in {0, 1} : SpotCycle(res, d)
          \/ \E req \in Requests : Request(req)
    \/ Respond
    \/ LogDone

InitCache == Init /\ testnet = FALSE

SpecCache == InitCache /\ [][NextCache]_vars

\* the lines of the life-cycle specification
LifeLines == { l \in Lines : l.kind = "object" /\ l.method \in {"getStatus", "shutdown"} }

\* the daemon from the first line of real_main to its exit: the start-up,
\* the scheduler tasks from the moment they are spawned, the accept loop with
\* its connections, the shutdown flag and the cleanup (of the upstream, only
\* allMids answers)
NextLife ==
    \/ /\ errlog = None
       /\ \/ \E ok \in BOOLEAN : EnsureDir(ok)
          \/ \E ok \in BOOLEAN : RemoveExistingSocket(ok)
          \/ \E ok \in BOOLEAN : Daemonize(ok)
          \/ \E r \in {"ok", "pid_fails", "config_fails"} : WritePidAndConfig(r)
          \/ \E ok \in BOOLEAN : BuildRuntime(ok)
          \/ SpawnPollers
          \/ \E ok \in BOOLEAN : Bind(ok)
          \/ \E ok \in BOOLEAN : RegisterSigterm(ok)
          \/ \E res \in FetchResults(MidsSnapshots) : MidsCycle(res)
          \/ PerpMetasCycle(None)
          \/ \E s \in Scheds : SchedStop(s)
          \/ \E c \in Conns : Accept(c)
          \/ AcceptErr
          \/ \E sig \in {"sigint", "sigterm"} : Signal(sig)
          \/ AcceptShutdown
          \/ Cleanup
          \/ \E c \in Conns, line \in LifeLines : ConnRead(c, line)
          \/ \E c \in Conns : ConnEof(c)
          \/ \E c \in Conns, ok \in BOOLEAN : ConnWrite(c, ok)
          \/ \E c \in Conns : ConnSignal(c)
    \/ LogDone

\* the state when real_main begins: nothing is spawned, and a socket file
\* may be left from an earlier run
InitLife ==
    /\ now = 0
    /\ ticks = 0
    /\ went_back = FALSE
    /\ testnet = FALSE
    /\ started_at = 0
    /\ cache = EmptyCache
    /\ hist = EmptyCache
    /\ fetches = 0
    /\ sched = [s \in Scheds |-> "unspawned"]
    /\ shutdown = FALSE
    /\ main = "start"
    /\ main_why = "none"
    /\ conn = [c \in Conns |-> IdleConn]
    /\ out = [c \in Conns |-> << >>]
    /\ lines = 0
    /\ last = None
    /\ errlog = None
    /\ files \in {{}, {"socket"}}
    /\ cleanups = 0
    /\ client = NewClient
    /\ NewTasks
    /\ NewDir

SpecLife == InitLife /\ [][NextLife]_vars

\* a client on its connection: requests, seconds passing, lines arriving
NextClient ==
    \/ \E path_ok \in BOOLEAN, ok \in BOOLEAN : Connect(path_ok, ok)
    \/ \E path_ok \in BOOLEAN, ok \in BOOLEAN, sent \in BOOLEAN : TryConnect(path_ok, ok, sent)
    \/ \E method \in ClientMethods, ok \in BOOLEAN : ClientRequest(method, ok)
    \/ ClientWait
    \/ ClientTimeout
    \/ \E read \in Reads : ClientLine(read)

\* no client yet; the daemon runs, or has gone and left its socket file or
\* nothing behind
InitClient ==
    /\ now = 0
    /\ ticks = 0
    /\ went_back = FALSE
    /\ testnet = FALSE
    /\ started_at = 0
    /\ cache = EmptyCache
    /\ hist = EmptyCache
    /\ fetches = 0
    /\ shutdown = FALSE
    /\ main_why = "none"
    /\ conn = [c \in Conns |-> IdleConn]
    /\ out = [c \in Conns |-> << >>]
    /\ lines = 0
    /\ last = None
    /\ errlog = None
    /\ cleanups = 0
    /\ \/ main = "accept" /\ sched = Spawned /\ files = Files
       \/ main = "exited" /\ sched = [s \in Scheds |-> "stopped"] /\ files \in {{}, {"socket"}}
    /\ client = NoClient
    /\ NewTasks
    /\ NewDir

SpecClient == InitClient /\ [][NextClient]_vars

\* the clock step of the scheduler specification: a perp-metadata period,
\* after which a tick of every interval is due
SchedSteps == {PerpMetasPeriodMs}

\* the four scheduler tasks step by step, the clock, a signal and the exit
NextSched ==
    \/ /\ errlog = None
       /\ \/ \E d \in SchedSteps : Tick(d)
          \/ \E s \in Scheds : FetchBegin(s)
          \/ \E s \in Scheds : \E res \in FetchResults(FetchData(s)) : FetchDone(s, res)
          \/ AcquireRead
          \/ PerpRead
          \/ \E ok \in BOOLEAN : VenueDone(ok)
          \/ \E s \in Scheds : AcquireWrite(s)
          \/ \E s \in Scheds, d \in {0, 1} : Write(s, d)
          \/ \E s \in Scheds : SchedStop(s)
          \/ \E sig \in {"sigint", "sigterm"} : Signal(sig)
          \/ Cleanup
    \/ LogDone

SpecSched == InitCache /\ [][NextSched]_vars

\* two launchers and their daemons on one data directory
NextDir ==
    \/ \E d \in Daemons : ServerStartProbe(d)
    \/ \E d \in Daemons : ServerStartSpawn(d)
    \/ \E d \in Daemons : DaemonRemoveSocket(d)
    \/ \E d \in Daemons : DaemonDetach(d)
    \/ \E d \in Daemons : DaemonWritePid(d)
    \/ \E d \in Daemons : DaemonBind(d)
    \/ \E d \in Daemons : DaemonStop(d)
    \/ \E d \in Daemons : ServerStartAgain(d)

SpecDir == InitCache /\ [][NextDir]_vars

\* the running daemon on its way to the exit: the accept loop, the
\* connections, the signals, the flag, the schedulers leaving their loops
NextStop ==
    \/ \E c \in Conns : Accept(c)
    \/ AcceptErr
    \/ \E sig \in {"sigint", "sigterm"} : Signal(sig)
    \/ AcceptShutdown
    \/ Cleanup
    \/ \E c \in Conns, line \in LifeLines : ConnRead(c, line)
    \/ \E c \in Conns : ConnEof(c)
    \/ \E c \in Conns, ok \in BOOLEAN : ConnWrite(c, ok)
    \/ \E c \in Conns : ConnSignal(c)
    \/ \E s \in Scheds : SchedStop(s)

\* what the runtime guarantees: a task that can run does run - the accept
\* loop sees the flag and goes on to the cleanup, a pending write ends one
\* way or the other, a connection task that has written its shutdown
\* response sends the flag, a scheduler sees the flag. Signals, clients and
\* failures of accept come when they come.
FairStop ==
    /\ WF_vars(AcceptShutdown)
    /\ WF_vars(Cleanup)
    /\ \A c \in Conns : WF_vars(\E ok \in BOOLEAN : ConnWrite(c, ok))
    /\ \A c \in Conns : WF_vars(ConnSignal(c))
    /\ \A s \in Scheds : WF_vars(SchedStop(s))

SpecStop == Init /\ [][NextStop]_vars /\ FairStop


\* ------------------------------------------------------------------------
\* Properties
\* ------------------------------------------------------------------------
\* the latest call of handle_request, its request and its response
Called == last # None
LastReq == Unwrap(last).req
LastResp == Unwrap(last).resp
LastCoin == coin_of(LastReq.params)

IsOk(resp) == IsSome(resp.result) /\ ~IsSome(resp.error)
IsErr(resp) == ~IsSome(resp.result) /\ IsSome(resp.error)
NoData(id) == response_err(id, Msg("No data available", << >>))

\* the last response written to connection c is the success of a shutdown
ShutdownFlushed(c) ==
    /\ Len(out[c]) > 0
    /\ IsOk(out[c][Len(out[c])])
    /\ Unwrap(out[c][Len(out[c])].result).of = "ok"

\* C1: a connection task sets the shutdown flag only after the success
\* response of its shutdown request has been written and flushed to its
\* client; the flag is true only through a signal or such a task, so an accept
\* loop that stops on the flag stops after that response was flushed.
C1_ResponseBeforeShutdown ==
    /\ \A c \in Conns : conn[c].sent => ShutdownFlushed(c)
    /\ shutdown => (main_why \in {"sigint", "sigterm"} \/ \E c \in Conns : conn[c].sent)
    /\ main_why = "flag" => \E c \in Conns : conn[c].sent /\ ShutdownFlushed(c)

C1_Witness ==
    /\ main_why = "flag"
    /\ \E c \in Conns : conn[c].sent /\ ShutdownFlushed(c)

\* C2: the connected flag of a getStatus response is true exactly when the
\* mids slot is populated and younger than 5000 ms at the clock value of the
\* call: true at age 4999, false at age 5000, false when mids is absent
\* whatever the other slots hold.
C2_ConnectedIffFreshMids ==
    (Called /\ LastReq.method = "getStatus") =>
        LET connected == Unwrap(LastResp.result).v.connected
            mids == cache["mids"]
        IN  /\ connected <=> (IsSome(mids) /\ now - Unwrap(mids).updated_at < 5000)
            /\ (IsSome(mids) /\ now = Unwrap(mids).updated_at + 4999) => connected
            /\ (IsSome(mids) /\ now = Unwrap(mids).updated_at + 5000) => ~connected
            /\ ~IsSome(mids) => ~connected

C2_Witness ==
    /\ Called /\ LastReq.method = "getStatus"
    /\ IsSome(cache["mids"])
    /\ now = Unwrap(cache["mids"]).updated_at + 5000
    /\ Unwrap(LastResp.result).v.connected = FALSE

\* the age status() reports for a slot
ReportedAge(st, slot) ==
    CASE slot = "mids"       -> st.mids_age
      [] slot = "asset_ctxs" -> st.asset_ctxs_age
      [] slot = "perp_metas" -> st.perp_metas_age
      [] slot = "spot_meta"  -> st.spot_meta_age
      [] slot = "spot_ctxs"  -> st.spot_asset_ctxs_age

\* C3: for each slot the age in a status is the clock value of the call
\* minus the clock value of the slot's latest successful refresh, absent
\* exactly when no refresh of the slot has succeeded, whatever the other slots
\* hold; it is not negative as long as the clock has not gone backwards.
C3_AgeSinceLatestRefresh ==
    (Called /\ LastReq.method = "getStatus") =>
        \A slot \in Slots :
            LET age == ReportedAge(Unwrap(LastResp.result).v.cache, slot)
            IN  /\ IsSome(age) <=> IsSome(hist[slot])
                /\ IsSome(age) => Unwrap(age) = now - Unwrap(hist[slot]).updated_at
                /\ (IsSome(age) /\ ~went_back) => Unwrap(age) >= 0

C3_Witness ==
    /\ Called /\ LastReq.method = "getStatus"
    /\ ~went_back
    /\ LET st == Unwrap(LastResp.result).v.cache
       IN  /\ IsSome(st.mids_age) /\ IsSome(st.perp_metas_age)
           /\ Unwrap(st.mids_age) = 5000 /\ Unwrap(st.perp_metas_age) = 1
           /\ ~IsSome(st.spot_meta_age)

\* C4: getPrices without a coin returns the map of the latest successful
\* mids refresh and nothing of earlier ones, with cachedAt the clock value of
\* that same refresh.
C4_PricesAreLatestSnapshot ==
    (Called /\ LastReq.method = "getPrices" /\ ~IsSome(LastCoin) /\ IsSome(hist["mids"])) =>
        /\ LastResp = response_ok(LastReq.id, Json("mids", Unwrap(hist["mids"]).data),
                                  Some(Unwrap(hist["mids"]).updated_at))
        /\ Unwrap(cache["mids"]) = Unwrap(hist["mids"])

C4_Witness ==
    /\ Called /\ LastReq.method = "getPrices" /\ ~IsSome(LastCoin)
    /\ fetches = 2
    /\ IsOk(LastResp)
    /\ DOMAIN Unwrap(LastResp.result).v = { <<"A">> }
    /\ LastResp.cached_at = Some(1)

\* the symbols of the cached mids map that equal the coin up to letter case
Matching(coin) ==
    IF IsSome(cache["mids"])
    THEN { k \in DOMAIN Unwrap(cache["mids"]).data : EqIgnoreCase(k, coin) }
    ELSE {}

\* C5: getPrices with a coin that equals a cached symbol K up to letter case
\* succeeds with the singleton map from the uppercase coin to the price of
\* K, and cachedAt of the mids slot.
C5_CoinMatchesIgnoringCase ==
    (Called /\ LastReq.method = "getPrices" /\ IsSome(LastCoin)) =>
        \A k \in Matching(Unwrap(LastCoin)) :
            LET entry == Unwrap(cache["mids"])
                upper == to_ascii_uppercase(Unwrap(LastCoin))
            IN  LastResp = response_ok(LastReq.id,
                                       Json("mids", [x \in {upper} |-> entry.data[k]]),
                                       Some(entry.updated_at))

\* C6: getPrices with a coin that matches no cached symbol answers the error
\* "Coin not found: " followed by the coin as sent, without result and
\* cachedAt; with the mids slot absent it answers "No data available" with
\* or without a coin.
C6_CoinNotFoundKeepsCase ==
    (Called /\ LastReq.method = "getPrices") =>
        /\ ~IsSome(cache["mids"]) => LastResp = NoData(LastReq.id)
        /\ (IsSome(cache["mids"]) /\ IsSome(LastCoin) /\ Matching(Unwrap(LastCoin)) = {}) =>
               LastResp = response_err(LastReq.id, Msg("Coin not found: ", Unwrap(LastCoin)))

C6_Witness ==
    /\ Called /\ LastReq.method = "getPrices"
    /\ IsSome(cache["mids"])
    /\ LastCoin = Some(<<"b">>)
    /\ LastResp = response_err(LastReq.id, Msg("Coin not found: ", <<"b">>))

\* C7: each of the four slot getters answers from its own slot alone: "No
\* data available" exactly when that slot is absent, else the data of that
\* slot with cachedAt its updatedAt.
C7_GetterReadsOwnSlot ==
    (Called /\ LastReq.method \in {"getAssetCtxs", "getPerpMeta", "getSpotMeta", "getSpotAssetCtxs"}) =>
        LET slot == CASE LastReq.method = "getAssetCtxs"     -> "asset_ctxs"
                      [] LastReq.method = "getPerpMeta"      -> "perp_metas"
                      [] LastReq.method = "getSpotMeta"      -> "spot_meta"
                      [] LastReq.method = "getSpotAssetCtxs" -> "spot_ctxs"
        IN  /\ ~IsSome(cache[slot]) <=> LastResp = NoData(LastReq.id)
            /\ IsSome(cache[slot]) =>
                   LastResp = response_ok(LastReq.id, Json(slot, Unwrap(cache[slot]).data),
                                          Some(Unwrap(cache[slot]).updated_at))

C7_Witness ==
    /\ Called /\ LastReq.method = "getPerpMeta"
    /\ IsSome(cache["asset_ctxs"]) /\ IsSome(cache["perp_metas"])
    /\ Unwrap(cache["asset_ctxs"]).updated_at # Unwrap(cache["perp_metas"]).updated_at
    /\ LastResp.cached_at = Some(Unwrap(cache["perp_metas"]).updated_at)

\* C8: a request whose method is none of the seven names, compared exactly,
\* is answered "Unknown method: {method}" under its own id, requests no
\* shutdown and leaves the five slots as they were.
C8_UnknownMethod ==
    [][ (last = None /\ last' # None /\ Unwrap(last').req.method \notin Methods) =>
            /\ Unwrap(last').resp =
                   response_err(Unwrap(last').req.id,
                                Msg("Unknown method: ", << Unwrap(last').req.method >>))
            /\ ~Unwrap(last').should
            /\ cache' = cache
            /\ shutdown' = shutdown ]_vars

C8_Witness ==
    /\ Called /\ LastReq.method = "Shutdown" /\ LastReq.id = "2"
    /\ IsErr(LastResp)
    /\ fetches > 0

\* C9: a response has exactly one of result and error; cachedAt comes only
\* with a result, and exactly with the results read from a slot (getPrices
\* and the four getters), never with getStatus, shutdown or an error.
C9_ResponseShape ==
    /\ IsErr(InvalidJson) /\ ~IsSome(InvalidJson.cached_at)
    /\ Called =>
        /\ IsOk(LastResp) \/ IsErr(LastResp)
        /\ IsSome(LastResp.cached_at) <=>
               (IsOk(LastResp) /\ LastReq.method \in Methods \ {"getStatus", "shutdown"})

C9_Witness ==
    /\ Called /\ LastReq.method = "getStatus"
    /\ IsOk(LastResp) /\ ~IsSome(LastResp.cached_at)
    /\ IsSome(cache["mids"])

\* C10: a line that is not empty and does not decode to a request is
\* answered with id "0" and "Invalid JSON", changes no slot, signals no
\* shutdown, and the connection goes on reading.
C10_MalformedLineAnswered ==
    [][ \A c \in Conns :
          (conn[c].pc = "read" /\ lines' = lines + 1 /\ conn'[c] # conn[c]
             /\ conn'[c].kind \in {"malformed", "bad_utf8"}) =>
                /\ conn'[c].pc = "write"
                /\ conn'[c].resp = Some(InvalidJson)
                /\ ~conn'[c].should
                /\ cache' = cache
                /\ shutdown' = shutdown ]_vars

\* C11: a protocol error leaves the connection open: a task that has read a
\* line ends only when that line was the end of the stream, an error response
\* that was written is followed by the next read, and a request read on any
\* connection, whatever came before on it, gets the response handle_request
\* gives for it; only a shutdown request makes the task end by itself.
C11_ErrorsKeepConnectionOpen ==
    [][ \A c \in Conns :
          /\ (conn[c].pc = "read" /\ conn'[c].pc = "closed") => conn'[c].kind = "eof"
          /\ (conn[c].pc = "write" /\ IsErr(Unwrap(conn[c].resp)) /\ out'[c] # out[c]) =>
                 conn'[c].pc = "read"
          /\ (conn[c].pc = "read" /\ conn'[c].pc = "write" /\ conn'[c].kind = "request") =>
                 conn'[c].resp =
                     Some(handle_request(Unwrap(conn'[c].req), cache, testnet, started_at, now)[1])
          /\ (conn[c].pc = "signal" /\ conn'[c].pc = "closed") => conn[c].should ]_vars

\* the presence status() reports for a slot
ReportedHas(st, slot) ==
    CASE slot = "mids"       -> st.has_mids
      [] slot = "asset_ctxs" -> st.has_asset_ctxs
      [] slot = "perp_metas" -> st.has_perp_metas
      [] slot = "spot_meta"  -> st.has_spot_meta
      [] slot = "spot_ctxs"  -> st.has_spot_asset_ctxs

\* C12: getStatus succeeds whatever the cache holds, the empty cache
\* included: a result under the request's id, no error, no cachedAt, running
\* true, the network flag and startedAt of the daemon, uptime the clock value
\* minus startedAt, and for each of the five slots its presence and its age.
C12_StatusAlwaysSucceeds ==
    (Called /\ LastReq.method = "getStatus") =>
        /\ IsOk(LastResp)
        /\ LastResp.id = LastReq.id
        /\ ~IsSome(LastResp.cached_at)
        /\ LET st == Unwrap(LastResp.result).v
           IN  /\ Unwrap(LastResp.result).of = "status"
               /\ st.running = TRUE
               /\ st.testnet = testnet
               /\ st.started_at = started_at
               /\ st.uptime = now - started_at
               /\ \A slot \in Slots :
                      /\ ReportedHas(st.cache, slot) = IsSome(cache[slot])
                      /\ ReportedAge(st.cache, slot) =
                             IF IsSome(cache[slot])
                             THEN Some(now - Unwrap(cache[slot]).updated_at)
                             ELSE None
        /\ \A flag \in BOOLEAN, started \in {0, 3} :
              LET r == handle_request(LastReq, cache, flag, started, now)[1]
              IN  /\ IsOk(r) /\ ~IsSome(r.cached_at)
                  /\ Unwrap(r.result).v.testnet = flag
                  /\ Unwrap(r.result).v.started_at = started
                  /\ Unwrap(r.result).v.uptime = now - started

C12_Witness ==
    /\ Called /\ LastReq.method = "getStatus"
    /\ cache = EmptyCache
    /\ now > 0
    /\ IsOk(LastResp)
    /\ Unwrap(LastResp.result).v.uptime = now

\* the error texts handle_request can answer with
RpcErrors == {"No data available", "Coin not found: ", "Unknown method: "}

\* C13 as stated: the step in which any upstream fetch of a scheduler fails,
\* the fetch of a secondary venue included, leaves every slot the scheduler
\* owns with its data and updatedAt.
C13_AnyFetchFailureKeepsSlot ==
    [][ (errlog = None /\ errlog' # None) =>
            /\ cache' = cache
            /\ last' = last ]_vars

\* C13 as amended: the step in which a scheduler's fetch fails - for the
\* perp-contexts scheduler the fetch of the primary venue - leaves every
\* slot with its data and updatedAt, leaves the scheduler in its loop, ready
\* for the next tick, and gives nothing to any RPC caller: the error goes to
\* the log, and every error an RPC caller gets is one of handle_request's own.
C13_FetchFailureKeepsSlot ==
    [][ /\ (errlog = None /\ errlog' # None /\ Unwrap(errlog').sched \in Scheds) =>
              /\ cache' = cache
              /\ sched'[Unwrap(errlog').sched] = "loop"
              /\ last' = last
              /\ out' = out
        /\ (last' # None /\ IsErr(Unwrap(last').resp)) =>
              Unwrap(Unwrap(last').resp.error).text \in RpcErrors ]_vars

C13_Witness ==
    /\ errlog = Some([sched |-> "spot", had |-> TRUE])
    /\ IsSome(cache["spot_meta"]) /\ IsSome(cache["spot_ctxs"])
    /\ cache["mids"] = None
    /\ sched["spot"] = "loop"

\* C14: whatever a reader of the cache sees, the two spot slots are both
\* absent or both present, and when present they hold the metadata and the
\* contexts of one answer of the upstream, both of the latest successful
\* spot cycle; the status and the two spot getters report them so.
C14_SpotPairAtomic ==
    /\ IsSome(cache["spot_meta"]) <=> IsSome(cache["spot_ctxs"])
    /\ IsSome(cache["spot_meta"]) =>
          LET meta == Unwrap(cache["spot_meta"])
              ctxs == Unwrap(cache["spot_ctxs"])
          IN  /\ << meta.data, ctxs.data >> \in SpotSnapshots
              /\ meta = Unwrap(hist["spot_meta"]) /\ ctxs = Unwrap(hist["spot_ctxs"])
    /\ (Called /\ LastReq.method = "getStatus") =>
          LET st == Unwrap(LastResp.result).v.cache
          IN  st.has_spot_meta = st.has_spot_asset_ctxs
    /\ (Called /\ LastReq.method \in {"getSpotMeta", "getSpotAssetCtxs"} /\ IsOk(LastResp)) =>
          \E pair \in SpotSnapshots :
              /\ Unwrap(LastResp.result).v \in {pair[1], pair[2]}
              /\ Unwrap(cache["spot_meta"]).data = pair[1]
              /\ Unwrap(cache["spot_ctxs"]).data = pair[2]

C14_Witness ==
    /\ Called /\ LastReq.method = "getSpotAssetCtxs" /\ IsOk(LastResp)
    /\ fetches = 2
    /\ Unwrap(cache["spot_meta"]) = CacheEntry("spotMeta2", 1)
    /\ Unwrap(cache["spot_ctxs"]) = CacheEntry("spotCtxs2", 2)

\* C15: the cache starts with its five slots absent; in every step a slot
\* that is present stays present, and after the step a slot is present
\* exactly when a refresh of it has succeeded since the start.
C15_PresentIffRefreshed ==
    /\ cache = EmptyCache
    /\ [][ \A slot \in Slots :
              /\ IsSome(cache[slot]) => IsSome(cache'[slot])
              /\ IsSome(cache'[slot]) <=> IsSome(hist'[slot]) ]_vars

C15_Witness ==
    /\ errlog = Some([sched |-> "mids", had |-> TRUE])
    /\ IsSome(cache["mids"])
    /\ IsSome(cache["perp_metas"])
    /\ cache["spot_meta"] = None

\* C16: cleanup_files runs at most once, it removes the three files, and
\* when it has run the accept loop has ended and each of the four scheduler
\* tasks has left its loop.
C16_CleanupAfterAllStopped ==
    /\ cleanups <= 1
    /\ cleanups > 0 =>
          /\ main = "exited"
          /\ files = {}
          /\ \A s \in Scheds : sched[s] = "stopped"

\* C18: a start-up that ends because the socket could not be bound leaves
\* neither the pid file nor the status file: both are written only after the
\* bind.
C18_MarkersOnlyAfterBind ==
    /\ (main = "exited" /\ main_why = "bind") => files \cap {"pid", "config"} = {}
    /\ files \cap {"pid", "config"} # {} => "socket" \in files

\* C19: a start-up that ends because the data directory could not be
\* created or the socket could not be bound has spawned no scheduler task,
\* written no slot and accepted no connection.
C19_AbortBeforeSchedulers ==
    (main = "exited" /\ main_why \in {"dir", "bind"}) =>
        /\ \A s \in Scheds : sched[s] = "unspawned"
        /\ cache = EmptyCache
        /\ \A c \in Conns : conn[c] = IdleConn

\* C17: a shutdown request that a connection has dispatched, and a SIGINT
\* or SIGTERM the accept loop has received, each lead to the accept loop
\* ended and the cleanup run once; the flag, once true, stays true, and the
\* cleanup never runs twice.
C17_TriggerLeadsToCleanup ==
    /\ [][shutdown => shutdown']_vars
    /\ [](cleanups <= 1)
    /\ (\E c \in Conns : conn[c].kind = "request" /\ conn[c].should)
           ~> (main = "exited" /\ cleanups = 1)
    /\ (main_why \in {"sigint", "sigterm"}) ~> (main = "exited" /\ cleanups = 1)

\* C20: a request that has no response with its id is never outstanding
\* for more than 5 seconds after it was sent, and when it fails with a
\* timeout it does so 5 seconds after it was sent, however many lines with
\* other ids were read in between.
C20_TimeoutEndToEnd ==
    /\ client.pc = "wait" => client.elapsed <= ClientTimeoutS
    /\ client.res = "timeout" => client.elapsed = ClientTimeoutS

\* the typed getters of the client
Getters == {"getPrices", "getAssetCtxs", "getPerpMeta", "getSpotMeta", "getSpotAssetCtxs"}

\* C21: a client request completes with a response only if the id of that
\* response line is the id of the outstanding request; a line with any
\* other id (a late reply to an earlier request, an id "0" error) is never
\* what the call returns or fails with.
C21_OnlyMatchingIdCompletes ==
    (client.res \in {"ok", "err"} \/ (IsSome(client.ret) /\ Unwrap(client.ret).ok))
        => /\ IsSome(client.got)
           /\ Unwrap(client.got).kind = "line"
           /\ Unwrap(client.got).resp.id = client.ids[Len(client.ids)]

\* the second request of a connection has skipped a line with another id
\* and has then returned a response
C21_Witness ==
    /\ client.request_id = 2
    /\ client.skipped > 0
    /\ client.res = "ok"

\* C22: when the matched response has an error, the call fails with that
\* message and without data, also when the response has a result too; a
\* typed getter returns a value of the type of its method together with the
\* cached_at of the response, or a failure without any data.
C22_ErrorExactGetterComplete ==
    /\ client.res = "err"
           => client.ret = Some(CallErr(Unwrap(Unwrap(client.got).resp.error)))
    /\ (client.method \in Getters /\ IsSome(client.ret))
           => LET r == Unwrap(client.ret)
              IN  \/ /\ r.ok
                     /\ r.data = Some(expected(client.method))
                     /\ IsSome(r.cached_at)
                     /\ r.cached_at = Unwrap(client.got).resp.cached_at
                  \/ /\ ~r.ok
                     /\ r.data = None
                     /\ r.cached_at = None

\* a getter has failed with the error of a response that had a result and
\* a cached_at as well
C22_Witness ==
    /\ client.method = "getPrices"
    /\ client.res = "err"
    /\ IsSome(Unwrap(client.got).resp.result)
    /\ IsSome(Unwrap(client.got).resp.cached_at)
    /\ Unwrap(client.ret).msg = "No data available"

\* try_connect has returned and nothing was called since
TryConnectReturned == client.tc # "none" /\ client.request_id <= 1

\* C23 as claimed: try_connect yields a client exactly when the socket path
\* exists, the connect succeeds and the getStatus call succeeds, and in every
\* other case it returns "not running" as a value, never an error.
C23_TryConnectNeverFails ==
    TryConnectReturned
        => /\ client.tc \in {"client", "not_running"}
           /\ client.tc = "client"
                  <=> /\ "socket" \in files
                      /\ client.connected
                      /\ IsSome(client.ret)
                      /\ Unwrap(client.ret).ok

\* C23, amended: the same where the socket path can be computed; where it
\* cannot (paths::hl_dir fails) try_connect fails with that error, and so
\* does is_server_running, which otherwise tells whether the socket path
\* exists, listener or not.
C23_TryConnect ==
    /\ TryConnectReturned
        => /\ client.tc = "error" <=> ~client.path_ok
           /\ client.tc = "client"
                  <=> /\ client.path_ok
                      /\ "socket" \in files
                      /\ client.connected
                      /\ IsSome(client.ret)
                      /\ Unwrap(client.ret).ok
           /\ client.tc = "client" => client.pc = "idle"
           /\ client.tc # "client" => client.pc = "dropped"
    /\ is_server_running(FALSE) = "error"
    /\ is_server_running(TRUE) = (IF "socket" \in files THEN "true" ELSE "false")

\* the socket file is there and the connect succeeded, and try_connect
\* reports "not running" because its getStatus call timed out
C23_Witness ==
    /\ TryConnectReturned
    /\ client.tc = "not_running"
    /\ client.connected
    /\ client.res = "timeout"

\* C24: the ids of the requests of one connection are "1", "2", "3", .. in
\* this order, whatever the outcome of each request was.
C24_IdsCountFromOne ==
    /\ Len(client.ids) = client.request_id
    /\ \A i \in 1..Len(client.ids) : client.ids[i] = ToString(i)

\* a second request is outstanding after the first one has ended
C24_Witness ==
    /\ client.ids = << "1", "2" >>
    /\ client.pc = "wait"

\* C25: once a scheduler has started a fetch, the fetch returns and its
\* outcome is handled before the task ends, also when the daemon has gone
\* through its cleanup and has exited in the meantime: at the exit no task
\* is between the start of a fetch and the end of its cycle.
C25_FetchRunsToCompletion ==
    main = "exited" => \A s \in Scheds : sched[s] \notin InCycle

\* C26: once the shutdown flag is true, no scheduler that is at its wait
\* starts another fetch, due tick or not.
C26_NoFetchAfterFlag ==
    [][ \A s \in Scheds :
          (shutdown /\ sched[s] = "loop") => sched'[s] # "fetching" ]_vars

\* the sequence of venue names of an asset-contexts list after its first pair
venue_names(ctxs) == [i \in 1..(Len(ctxs) - 1) |-> ctxs[i + 1][1]]
Elems(seq) == { seq[i] : i \in 1..Len(seq) }
Ascending(seq) == \A i \in 1..Len(seq) : \A j \in (i + 1)..Len(seq) : StrLess(seq[i], seq[j])

\* C27: when the perp-contexts task writes, every venue it read has been
\* tried, and the slot becomes the pair of the primary venue followed, in
\* ascending order, by the pair of each venue whose fetch succeeded in this
\* cycle - the venues that failed, and no others, are missing.
C27_FailedVenueSkipped ==
    [][ (sched["perp_ctxs"] = "writing" /\ sched'["perp_ctxs"] = "loop") =>
          LET p == Unwrap(pend["perp_ctxs"])
              ctxs == Unwrap(cache'["asset_ctxs"]).data.ctxs
          IN  /\ p.dexes = << >>
              /\ ctxs[1] = << << >>, p.default >>
              /\ Ascending(venue_names(ctxs))
              /\ Elems(venue_names(ctxs)) = Elems(p.all) \ p.failed
              /\ \A i \in 2..Len(ctxs) : ctxs[i][2] = DexCtxs(ctxs[i][1])
              /\ Unwrap(cache'["asset_ctxs"]).updated_at = now ]_vars

\* venue a has failed, venue b after it has been fetched, and the task is
\* about to write the primary venue and b
C27_Witness ==
    /\ sched["perp_ctxs"] = "writing"
    /\ Unwrap(pend["perp_ctxs"]).failed = { <<"a">> }
    /\ venue_names(Unwrap(pend["perp_ctxs"]).ctxs) = << <<"b">> >>

\* dex is the text before the first ':' of the first name of an entry of
\* the metadata after the entry of the primary venue
IsVenueOf(dex, data) ==
    \E i \in 2..Len(data) :
        /\ Len(data[i].universe) >= 1
        /\ \E k \in 1..Len(data[i].universe[1]) :
              /\ data[i].universe[1][k] = ":"
              /\ \A j \in 1..(k - 1) : data[i].universe[1][j] # ":"
              /\ dex = [j \in 1..(k - 1) |-> data[i].universe[1][j]]

\* C28: the venues of a cycle are read from the perp-metadata slot as it is
\* when the task holds its read guard: ascending and without duplicates, a
\* venue for every entry after the first whose first name has a ':', and no
\* other; none when the slot is absent, and then the task goes on to its
\* write with the primary venue alone. No step of the perp-contexts task
\* changes the perp-metadata slot.
C28_VenuesFromMetadata ==
    [][ /\ (sched["perp_ctxs"] = "reading" /\ sched'["perp_ctxs"] # "reading") =>
              LET all == Unwrap(pend'["perp_ctxs"]).all
                  slot == cache["perp_metas"]
              IN  /\ Ascending(all)
                  /\ IsSome(slot) =>
                        /\ \A d \in Elems(all) : IsVenueOf(d, Unwrap(slot).data)
                        /\ \A i \in 2..Len(Unwrap(slot).data) :
                              IsSome(dex_of(Unwrap(slot).data[i])) =>
                                  Unwrap(dex_of(Unwrap(slot).data[i])) \in Elems(all)
                  /\ ~IsSome(slot) => all = << >>
                  /\ Unwrap(pend'["perp_ctxs"]).dexes = all
                  /\ sched'["perp_ctxs"] = (IF all = << >> THEN "wlock" ELSE "venues")
        /\ sched'["perp_ctxs"] # sched["perp_ctxs"] => cache'["perp_metas"] = cache["perp_metas"]
      ]_vars

\* the metadata lists venues b, a and b again, and the task has read the
\* venues a, b
C28_Witness ==
    /\ sched["perp_ctxs"] = "venues"
    /\ IsSome(cache["perp_metas"])
    /\ Len(Unwrap(cache["perp_metas"]).data) = 4
    /\ Unwrap(pend["perp_ctxs"]).all = << <<"a">>, <<"b">> >>

\* C29: after its fetch at the start, the perp-metadata task begins a fetch
\* from its loop only when 60 seconds have passed since it started.
C29_NextFetchAfterAMinute ==
    [][ (sched["perp_metas"] = "loop" /\ sched'["perp_metas"] = "fetching")
            => now >= PerpMetasPeriodMs ]_vars

\* C30: a task that awaits an upstream fetch holds no guard of the cache
\* lock; a guard is held only by a task at its read or at its write, and the
\* writer is a task whose fetch has returned.
C30_NoLockAcrossFetch ==
    /\ \A s \in Scheds : sched[s] \in InFlight => s \notin holders(lock)
    /\ \A s \in Scheds : s \in lock.readers <=> (s = "perp_ctxs" /\ sched[s] = "reading")
    /\ \A s \in Scheds : lock.writer = Some(s) <=> sched[s] = "writing"
    /\ \A s \in Scheds : sched[s] = "writing" => IsSome(pend[s])

\* the perp-contexts task has read two venues under its read guard and
\* awaits the fetch of the second, and the lock is free
C30_Witness ==
    /\ sched["perp_ctxs"] = "venues"
    /\ Len(Unwrap(pend["perp_ctxs"]).all) = 2
    /\ Len(Unwrap(pend["perp_ctxs"]).dexes) = 1
    /\ holders(lock) = {}

\* the step is a successful refresh by the scheduler that owns the slot
OwnerRefresh(slot) ==
    CASE slot = "mids"       -> \E x \in MidsSnapshots : MidsCycle(Some(x))
      [] slot = "asset_ctxs" -> \E x \in DefaultCtxs, okset \in SUBSET AllDexes :
                                    PerpCtxsCycle(Some(x), okset)
      [] slot = "perp_metas" -> \E x \in PerpMetaSnapshots : PerpMetasCycle(Some(x))
      [] OTHER               -> \E x \in SpotSnapshots, d \in {0, 1} : SpotCycle(Some(x), d)

\* C31: a step that changes a slot is a successful refresh by the
\* scheduler that owns the slot, it leaves the slots of the other schedulers
\* as they are, and it is no call of handle_request; a call of
\* handle_request, whatever the method, changes no slot.
C31_OnlyOwnerWritesSlot ==
    [][ /\ \A slot \in Slots :
              cache'[slot] # cache[slot] =>
                  /\ OwnerRefresh(slot)
                  /\ last = None /\ last' = None
                  /\ cache'[slot] = hist'[slot]
                  /\ \A other \in Slots :
                        cache'[other] # cache[other] =>
                            {slot, other} \in {{"mids"}, {"asset_ctxs"}, {"perp_metas"},
                                               {"spot_meta"}, {"spot_ctxs"},
                                               {"spot_meta", "spot_ctxs"}}
        /\ last' # last => cache' = cache ]_vars

\* a shutdown request has been handled with the mids and the spot slots
\* refreshed before it
C31_Witness ==
    /\ Called
    /\ LastReq.method = "shutdown"
    /\ IsSome(cache["mids"])
    /\ IsSome(cache["spot_meta"])
    /\ IsSome(cache["spot_ctxs"])

C33_DispatchedShutdownSetsFlag ==
    \A c \in Conns : (conn[c].should /\ conn[c].pc = "closed") => conn[c].sent

\* C34: when the accept loop has ended - by a signal, by the shutdown flag
\* or by a failing accept - and the process has exited, none of the socket,
\* pid and status files is left.
C34_NoFilesLeftAfterLoop ==
    (main = "exited" /\ main_why \in {"sigint", "sigterm", "flag", "accept_err"})
        => files \cap Files = {}

\* C35: a daemon that is in its accept loop is the one the socket path
\* leads to and the one the pid file and the status file name, whatever
\* another daemon on the same data directory does at its start or at its
\* cleanup.
C35_LiveDaemonKeepsItsFiles ==
    \A d \in Daemons :
        daemon[d] = "accept" =>
            /\ disk.socket = Some(d)
            /\ disk.pid = Some(d)
            /\ disk.config = Some(d)

\* the responses of a connection that answer a request: a request of a
\* client has the number of the request as its id, "0" is the id of the
\* answer to a line that is no request
HasRequestId(resp) == resp.id # "0"
Answers(c) == SelectSeq(out[c], HasRequestId)

\* a request whose response is not written yet, or could not be written
\* (which ended the connection)
Unanswered(c) ==
    IF conn[c].kind = "request"
          /\ (conn[c].pc = "write" \/ (conn[c].pc = "closed" /\ ~conn[c].sent))
    THEN 1 ELSE 0

C37_PrimaryFailureSkipsCycle ==
    [][ /\ (errlog = None /\ errlog' # None /\ Unwrap(errlog').sched = "perp_ctxs") =>
              /\ sched["perp_ctxs"] = "fetching"
              /\ sched'["perp_ctxs"] = "loop"
              /\ pend'["perp_ctxs"] = None
              /\ cache' = cache
              /\ lock' = lock
        /\ (sched'["perp_ctxs"] = "rlock" /\ sched["perp_ctxs"] # "rlock") =>
              /\ sched["perp_ctxs"] = "fetching"
              /\ IsSome(pend'["perp_ctxs"])
              /\ errlog' = None
        /\ sched'["perp_ctxs"] \in {"reading", "venues"} =>
              sched["perp_ctxs"] \in {"rlock", "reading", "venues"} ]_vars

\* the fetch of the primary venue has failed in a cycle after the one that
\* populated the slot, and the slot has the updatedAt of the earlier cycle
C37_Witness ==
    /\ errlog # None
    /\ Unwrap(errlog).sched = "perp_ctxs"
    /\ sched["perp_ctxs"] = "loop"
    /\ IsSome(cache["asset_ctxs"])
    /\ Unwrap(cache["asset_ctxs"]).updated_at < now

\* C38: whenever the asset-contexts slot is populated, its list is not
\* empty, its first pair has the name "" of the primary venue, and the names
\* of the pairs after it are non-empty, pairwise distinct and in strictly
\* ascending order, whatever the perp-metadata slot holds - asset names that
\* begin with ':' included.
C38_AssetCtxsListWellFormed ==
    IsSome(cache["asset_ctxs"]) =>
        LET ctxs == Unwrap(cache["asset_ctxs"]).data.ctxs
        IN  /\ Len(ctxs) >= 1
            /\ ctxs[1][1] = << >>
            /\ \A i \in 2..Len(ctxs) : ctxs[i][1] # << >>
            /\ \A i, j \in 2..Len(ctxs) : i # j => ctxs[i][1] # ctxs[j][1]
            /\ Ascending(venue_names(ctxs))

====
